---- MODULE Spec2Model ----
(***************************************************************************)
(* Step-up authentication backend (client/backend): login sessions, the   *)
(* stepUp and devStepUp services and the session model, as a state machine *)
(* over the login_sessions table, the biometric validation records and the *)
(* in-flight service calls.  Every query that reads or writes the tables   *)
(* is a step of its own, so concurrent calls interleave exactly at the     *)
(* queries; the code that runs between two queries belongs to the step of  *)
(* the query before it, and the code before the first query to that query. *)
(***************************************************************************)
EXTENDS Integers, FiniteSets, Sequences, TLC

\* ---------------------------------------------------------------- bounds
MaxSessions == 1
NumCalls == 2
\* sessions created through the session model called on its own
MaxRows == 2
\* the clock is observed up to Horizon seconds
Horizon == 130

\* ------------------------------------------------------------- constants
\* process.env.TEMP_TOKEN_TTL_SECONDS || '120'
TempTokenTtlSeconds == 120
\* process.env.BIOMETRIC_SCORE_THRESHOLD || '0.85', in units of 1/10000
Threshold == 8500

\* -------------------------------------------------------- input domains
Calls == 1..NumCalls
UserIds == {1}
\* scores in units of 1/10000: below the threshold, at it
Scores == {8499, 8500}
\* a score that is not a number and does not parse to one, such as 'abc'
NotANumber == -2
ScoreInputs == Scores \cup {NotANumber}
\* the instants at which the clock is read: 0, the expires_at of a session
\* created at 0, and 10 seconds past it
Instants == {t \in {0, TempTokenTtlSeconds, TempTokenTtlSeconds + 10} :
                t <= Horizon}
UnknownLoginId == 0
\* a request body without login_id
NoLoginId == -1
\* process.env.NODE_ENV: "" stands for unset
NodeEnvs == {"development", "production", ""}
BogusNonce == 0
\* devStepUp inputs: score undefined, stroke_points undefined or a point count
NoScore == -1
NoPoints == -1
StrokeCounts == {NoPoints, 59}
\* callBMFA resolves with null or with a number of normalized points
BmfaNull == -1
BmfaResults == {BmfaNull, 60}
\* arc values as they appear in tokens and policies; a token without an arc
\* claim has "", and 'abc' is an arc that does not parse to a number
ArcLevels == {"0.5", "1.0", "2"}
ArcInputs == ArcLevels \cup {"", "abc"}
\* policy names: one that policies are created for, one that never has any
ResourceNames == {"sensitive_api", "profile"}

\* what the request to the BMFA service comes to: status 200 with a body that
\* has normalized_points, status 200 with a body that parses but has none,
\* another status, a body that does not parse, a network error, a timeout
BmfaOutcomes == {"200 normalized", "200 no points", "non-200", "unparsable",
                 "error", "timeout"}

VARIABLES
    sessions,     \* login_sessions table: login_id -> row
    validations,  \* rows written by register_biometric_validation
    calls,        \* service calls: inputs, position, locals, outcome
    now,          \* wall clock, seconds
    NODE_ENV,     \* process.env.NODE_ENV
    JWKS,         \* cloudScoring.service: the remote key set, or null
    verifyResult, \* outcome of the last direct call of verifyAssertion
    loginResult,  \* what the last login returned: { token, arc, user }
    policies,     \* policies table: name -> row
    evaluation,   \* what the last evaluateAccess returned
    res,          \* last middleware run: response, next(), req.user
    selected      \* the row the last getSessionByLoginId on its own returned

\* the state of access control: policy evaluation and the middlewares
accessVars == <<policies, evaluation, res>>

vars == <<sessions, validations, calls, now, NODE_ENV, JWKS, verifyResult,
          loginResult, policies, evaluation, res, selected>>

\* ------------------------------------------------------------ data shapes
NullToken == [jti |-> 0, sub |-> 0, role |-> "", arc |-> "", amr |-> <<>>,
              validation_id |-> 0, login_id |-> 0, nonce |-> 0]

NoRow == [login_id |-> 0, user_id |-> 0, nonce |-> 0, temp_token |-> NullToken,
          final_token |-> NullToken, status |-> "none", created_at |-> 0,
          completed_at |-> -1, expires_at |-> 0]

\* what login came to: the { token, arc, user } returned, or the Error thrown
NoLoginResult == [token |-> NullToken, arc |-> "", user |-> 0,
                  error |-> "", statusCode |-> 0]

\* no policy row (rows[0] of an empty result)
NoPolicy == [name |-> "", acr_required |-> "", is_active |-> FALSE]
\* nothing evaluated yet
NoEvaluation == [allowed |-> FALSE, requiredArc |-> "", reason |-> ""]
\* a middleware run: status and error of the response it sent (0 and "" when
\* it sent none), whether it called next(), and req.user after it
NoRes == [middleware |-> "", status |-> 0, error |-> "", next |-> FALSE,
          user |-> NullToken]

\* a service call: the request (kind and inputs), its position, its locals
\* (session, validationId) and its outcome (result, or error and statusCode).
\* Calls are numbered in the order in which they read the session.
NoCall == [kind |-> "none", pc |-> "idle", login_id |-> 0, nonce |-> 0,
           sub |-> 0, verified |-> FALSE, session |-> NoRow,
           validationId |-> 0, result |-> NullToken,
           error |-> "", statusCode |-> 0]

\* ------------------------------------------------------- token.service.js
\* mutant of signTempToken: the nonce of the payload is not embedded
signTempToken_NoNonce(payload, jti) ==
    [jti |-> jti, sub |-> payload.sub, role |-> "", arc |-> "0.5", amr |-> <<>>,
     validation_id |-> 0, login_id |-> payload.login_id, nonce |-> 0]

\* { iss, ...payload, arc: '0.5', jti, aud: 'node-backend' }
signTempToken(payload, jti) ==
    [jti |-> jti, sub |-> payload.sub, role |-> "", arc |-> "0.5", amr |-> <<>>,
     validation_id |-> 0, login_id |-> payload.login_id, nonce |-> payload.nonce]

\* { iss, sub: userId, role, arc: '1.0', jti, aud, ...customClaims }:
\* customClaims are spread last and override arc / amr when they carry them
signFinalToken(userId, role, customClaims, jti) ==
    [jti |-> jti, sub |-> userId, role |-> role,
     arc |-> IF customClaims.arc # "" THEN customClaims.arc ELSE "1.0",
     amr |-> customClaims.amr,
     validation_id |-> customClaims.validation_id, login_id |-> 0, nonce |-> 0]

\* ------------------------------------------------ cloudScoring.service.js
\* payload expected fields: sub, login_id, score, nonce
RequiredClaims == <<"sub", "login_id", "score", "nonce">>
\* no expectedLoginId given to verifyAssertion
NoExpectedLoginId == -1
\* payload.login_id of an assertion without that claim (undefined)
UndefinedLoginId == -2

\* a signed assertion, by what verification looks at: whether the key set can
\* be fetched when it arrives, whether its signature, issuer, audience and
\* age pass jwtVerify, which required claims it carries, and their values
Assertion(resolvable, signature, iss, aud, fresh, claims, login_id, sub, score, nonce) ==
    [resolvable |-> resolvable, signature |-> signature, iss |-> iss,
     aud |-> aud, fresh |-> fresh, claims |-> claims,
     login_id |-> IF "login_id" \in claims THEN login_id ELSE UndefinedLoginId,
     sub |-> sub, score |-> score, nonce |-> nonce]

\* the first element of a list that is not in a set, "" when all are
RECURSIVE FirstMissing(_, _)
FirstMissing(list, present) ==
    IF list = <<>> THEN ""
    ELSE IF Head(list) \notin present THEN Head(list)
    ELSE FirstMissing(Tail(list), present)

\* the error jwtVerify(signedAssertion, JWKS, { issuer, audience,
\* maxTokenAge }) throws, "" when it returns the payload: the key is
\* resolved and the signature verified before the claims are validated
jwtVerify(a) ==
    IF ~a.resolvable THEN "Expected 200 OK from the JSON Web Key Set HTTP response"
    ELSE IF ~a.signature THEN "signature verification failed"
    ELSE IF ~a.iss THEN "unexpected \"iss\" claim value"
    ELSE IF ~a.aud THEN "unexpected \"aud\" claim value"
    ELSE IF ~a.fresh
    THEN "\"iat\" claim timestamp check failed (too far in the past)"
    ELSE ""

\* mutant of verifyAssertion: the required claims are not checked
verifyAssertion_NoRequiredClaims(jwks, a, expectedLoginId) ==
    IF jwks = "null" THEN "JWKS not configured or invalid"
    ELSE IF jwtVerify(a) # "" THEN jwtVerify(a)
    ELSE IF expectedLoginId # NoExpectedLoginId /\ a.login_id # expectedLoginId
    THEN "login_id mismatch"
    ELSE "ok"

\* mutant of verifyAssertion: a missing key set is not a failure
verifyAssertion_NullKeySetAccepted(jwks, a, expectedLoginId) ==
    IF jwks # "null" /\ jwtVerify(a) # "" THEN jwtVerify(a)
    ELSE IF expectedLoginId # NoExpectedLoginId /\ a.login_id # expectedLoginId
    THEN "login_id mismatch"
    ELSE IF FirstMissing(RequiredClaims, a.claims) # ""
    THEN "Missing required claim " \o FirstMissing(RequiredClaims, a.claims)
    ELSE "ok"

\* verifyAssertion(signedAssertion, { expectedLoginId, maxAgeSeconds }):
\* "ok" when it returns the payload, the message of the Error otherwise
verifyAssertion(jwks, a, expectedLoginId) ==
    IF jwks = "null" THEN "JWKS not configured or invalid"
    ELSE IF jwtVerify(a) # "" THEN jwtVerify(a)
    ELSE IF expectedLoginId # NoExpectedLoginId /\ a.login_id # expectedLoginId
    THEN "login_id mismatch"
    ELSE IF FirstMissing(RequiredClaims, a.claims) # ""
    THEN "Missing required claim " \o FirstMissing(RequiredClaims, a.claims)
    ELSE "ok"

\* ------------------------------------------------------- session.model.js
getSessionByLoginId(login_id) ==
    IF login_id \in DOMAIN sessions THEN sessions[login_id] ELSE NoRow

\* INSERT INTO login_sessions (...) VALUES (..., 'pending', NOW(), expires_at)
InsertSession(tbl, row) ==
    [l \in DOMAIN tbl \cup {row.login_id} |->
        IF l = row.login_id THEN row ELSE tbl[l]]

\* mutant of the update: no WHERE clause, every row is completed
markSessionCompleted_NoWhere(tbl, login_id, final_token, t) ==
    [l \in DOMAIN tbl |->
        [tbl[l] EXCEPT !.final_token = final_token,
                       !.status = "completed",
                       !.completed_at = t]]

\* UPDATE login_sessions SET final_token = $1, status = 'completed',
\*   completed_at = NOW() WHERE login_id = $2
markSessionCompleted(tbl, login_id, final_token, t) ==
    [l \in DOMAIN tbl |->
        IF l = login_id
        THEN [tbl[l] EXCEPT !.final_token = final_token,
                            !.status = "completed",
                            !.completed_at = t]
        ELSE tbl[l]]

\* mutant of the update: the expired row is deleted
expireSession_Deletes(tbl, login_id) ==
    [l \in DOMAIN tbl \ {login_id} |-> tbl[l]]

\* UPDATE login_sessions SET status = 'expired' WHERE login_id = $1
expireSession(tbl, login_id) ==
    [l \in DOMAIN tbl |->
        IF l = login_id THEN [tbl[l] EXCEPT !.status = "expired"] ELSE tbl[l]]

\* ------------------------------------------------------- auth.service.js
\* UPDATE login_sessions SET final_token = $1, status = 'completed'
\*   WHERE login_id = $2        (the update at the end of stepUp)
StepUpUpdateSession(tbl, login_id, final_token) ==
    [l \in DOMAIN tbl |->
        IF l = login_id
        THEN [tbl[l] EXCEPT !.final_token = final_token,
                            !.status = "completed"]
        ELSE tbl[l]]

\* mutants of the session checks: one check left out
StepUpSessionCheck_NoNonceCheck(session, nonce, t) ==
    IF session = NoRow THEN "Login session not found"
    ELSE IF session.status # "pending" THEN "Login session not pending"
    ELSE IF session.expires_at < t THEN "Login session expired"
    ELSE "ok"

StepUpSessionCheck_NoExpiryCheck(session, nonce, t) ==
    IF session = NoRow THEN "Login session not found"
    ELSE IF session.status # "pending" THEN "Login session not pending"
    ELSE IF session.nonce # nonce THEN "Nonce mismatch"
    ELSE "ok"

StepUpSessionCheck_NoStatusCheck(session, nonce, t) ==
    IF session = NoRow THEN "Login session not found"
    ELSE IF session.nonce # nonce THEN "Nonce mismatch"
    ELSE IF session.expires_at < t THEN "Login session expired"
    ELSE "ok"

StepUpSessionCheck_ExpiredStatusTold(session, nonce, t) ==
    IF session = NoRow THEN "Login session not found"
    ELSE IF session.status = "expired" THEN "Login session expired"
    ELSE IF session.status # "pending" THEN "Login session not pending"
    ELSE IF session.nonce # nonce THEN "Nonce mismatch"
    ELSE IF session.expires_at < t THEN "Login session expired"
    ELSE "ok"

\* the session checks of stepUp, in the order of the code
StepUpSessionCheck(session, nonce, t) ==
    IF session = NoRow THEN "Login session not found"
    ELSE IF session.status # "pending" THEN "Login session not pending"
    ELSE IF session.nonce # nonce THEN "Nonce mismatch"
    ELSE IF session.expires_at < t THEN "Login session expired"
    ELSE "ok"

\* mutant of the threshold check: a score equal to the threshold is rejected
StepUpScoreRejected_AtThreshold(score) ==
    score = NotANumber \/ score <= Threshold

\* typeof score !== 'number' || score < threshold
StepUpScoreRejected(score) == score = NotANumber \/ score < Threshold

\* the session checks of devStepUp (no assertion, so no nonce check)
DevSessionCheck(session, t) ==
    IF session = NoRow THEN "Login session not found"
    ELSE IF session.status # "pending" THEN "Login session not pending"
    ELSE IF session.expires_at < t THEN "Login session expired"
    ELSE "ok"

\* mutant of the simulated score: it starts from 0.75
SimulatedScore_HigherBase(pointCount) ==
    IF 7500 + pointCount * 25 < 9500 THEN 7500 + pointCount * 25 ELSE 9500

\* score = Math.min(0.95, 0.70 + (pointCount / 100) * 0.25), units of 1/10000
SimulatedScore(pointCount) ==
    IF 7000 + pointCount * 25 < 9500 THEN 7000 + pointCount * 25 ELSE 9500

\* normalizedPoints after the BMFA call: the normalized points when BMFA
\* returned some, the original stroke_points otherwise
NormalizedCount(points, bmfa) ==
    IF points # NoPoints /\ bmfa # BmfaNull THEN bmfa ELSE points

\* mutant of callBMFA: the timeout handler rejects
callBMFA_TimeoutRejects(outcome) ==
    IF outcome = "200 normalized"
    THEN [settled |-> "resolved",
          normalized |-> CHOOSE n \in BmfaResults : n # BmfaNull]
    ELSE IF outcome = "timeout"
    THEN [settled |-> "rejected", normalized |-> BmfaNull]
    ELSE [settled |-> "resolved", normalized |-> BmfaNull]

\* callBMFA(...): how its promise settles and the normalized_points of what
\* it resolves with (BmfaNull for null and for a result without them).
\* res.on('end'): resolve(result) for status 200 with a body that parses,
\* resolve(null) for another status and from the catch of JSON.parse;
\* req.on('error') and req.on('timeout'): resolve(null)
callBMFA(outcome) ==
    IF outcome = "200 normalized"
    THEN [settled |-> "resolved",
          normalized |-> CHOOSE n \in BmfaResults : n # BmfaNull]
    ELSE IF outcome = "200 no points"
    THEN [settled |-> "resolved", normalized |-> BmfaNull]
    ELSE IF outcome \in {"non-200", "unparsable"}
    THEN [settled |-> "resolved", normalized |-> BmfaNull]
    ELSE [settled |-> "resolved", normalized |-> BmfaNull]

\* the score devStepUp decides on: the supplied one, or the simulated one
DevScore(score, points, bmfa) ==
    IF score # NoScore THEN score
    ELSE SimulatedScore(IF NormalizedCount(points, bmfa) = NoPoints
                        THEN 0 ELSE NormalizedCount(points, bmfa))

\* if (typeof score !== 'number') score = parseFloat(score), which is NaN for
\* a score that does not parse; score < threshold, which is false for NaN
DevScoreRejected(score) == score # NotANumber /\ score < Threshold

\* register_biometric_validation(user_id, login_id, validation_id, nonce,
\*   decision, ...): the row by the columns that identify it and its
\* decision; the score and the assertion columns are not kept
ValidationRecord(user_id, login_id, validation_id, nonce, decision) ==
    [validation_id |-> validation_id, user_id |-> user_id,
     login_id |-> login_id, nonce |-> nonce, decision |-> decision]

\* an Error thrown without a statusCode
NoStatusCode == 0

\* a thrown Error with its statusCode, as the call's outcome; the inputs and
\* the locals of the call end with it
Throw(call, message, statusCode) ==
    [NoCall EXCEPT !.kind = call.kind, !.pc = "done", !.error = message,
                   !.statusCode = statusCode]

\* return finalToken
Return(call, finalToken) ==
    [call EXCEPT !.pc = "done", !.result = finalToken, !.session = NoRow,
                 !.nonce = 0, !.sub = 0]

\* ------------------------------------------------- controllers, errorHandler
\* errorHandler(err, req, res, next): res.status(err.statusCode || err.status
\* || 500).json({ error: err.message }), with err.stack added to the body in
\* development; the stack names the statement that threw, here by the message
errorHandler(error, statusCode, env) ==
    [status |-> IF statusCode # NoStatusCode THEN statusCode ELSE 500,
     error |-> error,
     stack |-> IF env = "development" THEN error ELSE ""]

\* the response of the stepUp controller to a call that has ended:
\* res.status(200).json({ access_token, arc: '1.0', ... }) or next(err)
StepUpResponse(call, env) ==
    IF call.result # NullToken
    THEN [status |-> 200, error |-> "", stack |-> ""]
    ELSE errorHandler(call.error, call.statusCode, env)

\* ----------------------------------- policy.model, conditionalAccess.service
\* parseFloat of an arc string, in units of 1/10; NaN for one that does not
\* start with a number
parseFloat(arc) ==
    IF arc = "0.5" THEN 5
    ELSE IF arc = "1.0" THEN 10
    ELSE IF arc = "2" THEN 20
    ELSE NotANumber

\* a >= b and a < b of numbers of which either may be NaN: false with a NaN
NumGeq(a, b) == a # NotANumber /\ b # NotANumber /\ a >= b
NumLess(a, b) == a # NotANumber /\ b # NotANumber /\ a < b

\* SELECT * FROM policies WHERE name = $1 AND is_active = true
getPolicyByName(name) ==
    IF name \in DOMAIN policies /\ policies[name].is_active
    THEN policies[name] ELSE NoPolicy

\* mutant of the catch branch: the highest level is required when the lookup
\* fails
getRequiredArcForResource_FailClosed(resourceName, query) ==
    IF query = "error" THEN "2"
    ELSE IF getPolicyByName(resourceName) = NoPolicy THEN "0.5"
    ELSE getPolicyByName(resourceName).acr_required

\* getRequiredArcForResource(resourceName), the query returning rows or
\* failing ("error"): '0.5' when there is no policy and in the catch branch
getRequiredArcForResource(resourceName, query) ==
    IF query = "error" THEN "0.5"
    ELSE IF getPolicyByName(resourceName) = NoPolicy THEN "0.5"
    ELSE getPolicyByName(resourceName).acr_required

\* evaluateAccess(userArc, resourceName): { allowed, requiredArc, reason }
evaluateAccess(userArc, resourceName, query) ==
    LET requiredArc == getRequiredArcForResource(resourceName, query)
        userArcNum == IF userArc = "" THEN 0 ELSE parseFloat(userArc)
        requiredArcNum == IF requiredArc = "" THEN 5 ELSE parseFloat(requiredArc)
        allowed == NumGeq(userArcNum, requiredArcNum)
    IN  [allowed |-> allowed, requiredArc |-> requiredArc,
         reason |-> IF allowed THEN "allowed"
                    ELSE "required_arc=" \o requiredArc
                           \o ", user_arc=" \o userArc]

\* ----------------------------------------------- token.service verifyToken
\* process.env.JWT_ISSUER || 'LocalAzure', process.env.JWT_ALGO || 'RS256'
ISS == "LocalAzure"
ALGO == "RS256"

\* a compact JWT as presented: whether its signature verifies under PUB_KEY,
\* the alg of its header, and the iss, exp and other claims of its payload;
\* a string that is no JWT has the alg ""
NoJwt == [signature |-> FALSE, alg |-> "", iss |-> "", exp |-> 0,
          payload |-> NullToken]

\* the token string jwt.sign returns for a payload, expiring at exp
Jwt(payload, exp) ==
    [signature |-> TRUE, alg |-> ALGO, iss |-> ISS, exp |-> exp,
     payload |-> payload]

\* mutant of verifyToken: the expiry of the token is ignored
verifyToken_IgnoreExpiration(token, t) ==
    IF token.alg = ""
    THEN [name |-> "JsonWebTokenError", decoded |-> NullToken]
    ELSE IF token.alg # ALGO
    THEN [name |-> "JsonWebTokenError", decoded |-> NullToken]
    ELSE IF ~token.signature
    THEN [name |-> "JsonWebTokenError", decoded |-> NullToken]
    ELSE IF token.iss # ISS
    THEN [name |-> "JsonWebTokenError", decoded |-> NullToken]
    ELSE [name |-> "", decoded |-> token.payload]

\* jwt.verify(token, PUB_KEY, { algorithms: [ALGO], issuer: ISS }) at clock t:
\* the name of the error thrown ("" when none) and the decoded payload.  The
\* library decodes the token, checks the alg against the list, verifies the
\* signature, then checks exp (expired once the clock has reached it) and iss
verifyToken(token, t) ==
    IF token.alg = ""
    THEN [name |-> "JsonWebTokenError", decoded |-> NullToken]
    ELSE IF token.alg # ALGO
    THEN [name |-> "JsonWebTokenError", decoded |-> NullToken]
    ELSE IF ~token.signature
    THEN [name |-> "JsonWebTokenError", decoded |-> NullToken]
    ELSE IF t >= token.exp
    THEN [name |-> "TokenExpiredError", decoded |-> NullToken]
    ELSE IF token.iss # ISS
    THEN [name |-> "JsonWebTokenError", decoded |-> NullToken]
    ELSE [name |-> "", decoded |-> token.payload]

\* ---------------------------------------------------------- verifyJWT
\* a request without an Authorization header
NoAuthorization == [scheme |-> "", token |-> NoJwt]

\* verifyJWT(req, res, next) with req.headers.authorization = authHeader, the
\* header given by its scheme and what follows the first space
verifyJWT(authHeader, t) ==
    IF authHeader.scheme # "Bearer"
    THEN [middleware |-> "verifyJWT", status |-> 401,
          error |-> "Token requerido", next |-> FALSE, user |-> NullToken]
    ELSE LET verified == verifyToken(authHeader.token, t)
         IN  IF verified.name = ""
             THEN [middleware |-> "verifyJWT", status |-> 0, error |-> "",
                   next |-> TRUE, user |-> verified.decoded]
             ELSE IF verified.name = "TokenExpiredError"
             THEN [middleware |-> "verifyJWT", status |-> 401,
                   error |-> "Token expirado", next |-> FALSE,
                   user |-> NullToken]
             ELSE [middleware |-> "verifyJWT", status |-> 401,
                   error |-> "Token inválido", next |-> FALSE,
                   user |-> NullToken]

\* ---------------------------------------------------------- arc.middleware
\* requireArc(level)(req, res, next) with req.user = user
requireArc(level, user) ==
    LET userArc == IF user.arc = "" THEN 0 ELSE parseFloat(user.arc)
    IN  IF NumLess(userArc, parseFloat(level))
        THEN [middleware |-> "requireArc", status |-> 403,
              error |-> "Se requiere ARC " \o level
                          \o " para acceder a este recurso",
              next |-> FALSE, user |-> user]
        ELSE [middleware |-> "requireArc", status |-> 0, error |-> "",
              next |-> TRUE, user |-> user]

SessionNonces == {sessions[l].nonce : l \in DOMAIN sessions}
\* the next call to start is the lowest-numbered one that has not started
NextCall(c) == calls[c].pc = "idle" /\ \A d \in Calls : d < c => calls[d].pc # "idle"

\* uuidv4(): a value no earlier call of the same site has returned.  The
\* uuids of a login are named by the number of the session it creates, the
\* uuids of a step-up call by the call.
LoginUuid == Cardinality(DOMAIN sessions) + 1
CallUuid(c) == c

\* ------------------------------------------------------------------ Init
Init ==
    /\ sessions = <<>>
    /\ validations = {}
    /\ calls = [c \in Calls |-> NoCall]
    /\ now = 0
    /\ NODE_ENV \in NodeEnvs
    /\ JWKS \in {"set", "null"}
    /\ verifyResult = ""
    /\ loginResult = NoLoginResult
    /\ policies = <<>>
    /\ evaluation = NoEvaluation
    /\ res = NoRes
    /\ selected = NoRow

\* --------------------------------------------------------------- actions
\* login(email, password) with a valid password: fresh login_id and nonce,
\* temp token, INSERT of the pending session.  Sessions are created while
\* their expires_at still lies within the horizon of the clock.
Login(user) ==
    /\ Cardinality(DOMAIN sessions) < MaxSessions
    /\ now + TempTokenTtlSeconds <= Horizon
    /\ LET loginId == LoginUuid
           nonce == LoginUuid
           tempToken == signTempToken([sub |-> user, login_id |-> loginId,
                                       nonce |-> nonce], LoginUuid)
           expiresAt == now + TempTokenTtlSeconds
       IN  /\ sessions' = InsertSession(sessions,
               [login_id |-> loginId, user_id |-> user, nonce |-> nonce,
                temp_token |-> tempToken, final_token |-> NullToken,
                status |-> "pending", created_at |-> now,
                completed_at |-> -1, expires_at |-> expiresAt])
           /\ loginResult' = [token |-> tempToken, arc |-> "0.5",
                              user |-> user, error |-> "",
                              statusCode |-> 0]
    /\ UNCHANGED <<validations, calls, now, NODE_ENV, JWKS, verifyResult,
                   accessVars, selected>>

\* the Error a login call ends with when one of its statements fails:
\* validatePassword returns null, signTempToken throws, or the INSERT is
\* rejected
LoginError(step) ==
    IF step = "password"
    THEN [NoLoginResult EXCEPT !.error = "Credenciales inválidas",
                               !.statusCode = 401]
    ELSE IF step = "sign"
    THEN [NoLoginResult EXCEPT
            !.error = "secretOrPrivateKey must have a value",
            !.statusCode = NoStatusCode]
    ELSE [NoLoginResult EXCEPT
            !.error = "Connection terminated unexpectedly",
            !.statusCode = NoStatusCode]

\* mutant of the failing login: a rejected INSERT is swallowed and the temp
\* token returned
LoginFails_InsertSwallowed(user, step) ==
    /\ loginResult' =
          IF step = "insert"
          THEN [NoLoginResult EXCEPT
                  !.token = signTempToken([sub |-> user, login_id |-> LoginUuid,
                                           nonce |-> LoginUuid], LoginUuid),
                  !.arc = "0.5", !.user = user]
          ELSE LoginError(step)
    /\ UNCHANGED <<sessions, validations, calls, now, NODE_ENV, JWKS,
                   verifyResult, accessVars, selected>>

\* login(email, password) in which a statement fails; nothing is caught, so
\* the call ends there: before the INSERT for "password" and "sign", with
\* the INSERT (which adds no row) for "insert"
LoginFails(user, step) ==
    /\ loginResult' = LoginError(step)
    /\ UNCHANGED <<sessions, validations, calls, now, NODE_ENV, JWKS,
                   verifyResult, accessVars, selected>>

\* stepUp up to the validation write, from what verifyAssertion made of the
\* signed assertion ("ok" and the payload { login_id, sub, score, nonce }, or
\* the Error it threw, which stepUp lets through): SELECT * FROM
\* login_sessions WHERE login_id = $1, the session checks and the threshold
\* check
StepUpCall(verification, login_id, sub, score, nonce) ==
    LET session == getSessionByLoginId(login_id)
        call == [NoCall EXCEPT !.kind = "stepUp",
                               !.login_id = login_id, !.sub = sub,
                               !.nonce = nonce,
                               !.verified = (verification = "ok"),
                               !.session = session]
        check == StepUpSessionCheck(session, nonce, now)
    IN  IF verification # "ok"
        THEN Throw(call, verification, NoStatusCode)
        ELSE IF check # "ok" THEN Throw(call, check, 400)
        ELSE IF StepUpScoreRejected(score)
             THEN Throw(call, "Biometric verification failed", 401)
        ELSE [call EXCEPT !.pc = "register"]

\* a stepUp call from its start to the validation write, in one step
StepUp(c, verification, login_id, sub, score, nonce) ==
    /\ NextCall(c)
    /\ calls' = [calls EXCEPT ![c] =
           StepUpCall(verification, login_id, sub, score, nonce)]
    /\ UNCHANGED <<sessions, validations, now, NODE_ENV, JWKS,
                   verifyResult, loginResult,
                   accessVars, selected>>

\* mutant of the validation write: the call moves on without writing
StepUpRegister_NoWrite(c) ==
    /\ calls[c].kind = "stepUp" /\ calls[c].pc = "register"
    /\ calls' = [calls EXCEPT ![c].validationId = CallUuid(c),
                              ![c].pc = "update"]
    /\ UNCHANGED <<sessions, validations, now, NODE_ENV, JWKS,
                   verifyResult, loginResult,
                   accessVars, selected>>

\* stepUp({ signedAssertion }) with the assertion a
StepUpRequest(c, a) ==
    StepUp(c, verifyAssertion(JWKS, a, NoExpectedLoginId),
           a.login_id, a.sub, a.score, a.nonce)

\* verifyAssertion(signedAssertion, { expectedLoginId }) called on its own
VerifyAssertion(a, expectedLoginId) ==
    /\ verifyResult' = verifyAssertion(JWKS, a, expectedLoginId)
    /\ UNCHANGED <<sessions, validations, calls, now, NODE_ENV, JWKS,
                   loginResult,
                   accessVars, selected>>

\* stepUp when verifyAssertion has to fetch the key set: the call waits in
\* jwtVerify for the answer (pc "verify"); without a key set verifyAssertion
\* throws at once
StepUpFetch(c, a) ==
    /\ NextCall(c)
    /\ calls' = [calls EXCEPT ![c] =
           IF JWKS = "null"
           THEN StepUpCall(verifyAssertion(JWKS, a, NoExpectedLoginId),
                           a.login_id, a.sub, a.score, a.nonce)
           ELSE [NoCall EXCEPT !.kind = "stepUp", !.pc = "verify",
                               !.login_id = a.login_id, !.sub = a.sub,
                               !.nonce = a.nonce]]
    /\ UNCHANGED <<sessions, validations, now, NODE_ENV, JWKS,
                   verifyResult, loginResult, accessVars, selected>>

\* the answer to the key-set request arrives and the call of assertion a goes
\* on as stepUp does
FetchAnswers(c, a) ==
    /\ calls[c].kind = "stepUp" /\ calls[c].pc = "verify"
    /\ a.login_id = calls[c].login_id /\ a.sub = calls[c].sub
    /\ a.nonce = calls[c].nonce
    /\ calls' = [calls EXCEPT ![c] =
           StepUpCall(verifyAssertion(JWKS, a, NoExpectedLoginId),
                      a.login_id, a.sub, a.score, a.nonce)]
    /\ UNCHANGED <<sessions, validations, now, NODE_ENV, JWKS,
                   verifyResult, loginResult, accessVars, selected>>

\* mutant of the timeout of the key-set request: there is none
FetchTimesOut_NoTimer(c) ==
    /\ calls[c].kind = "stepUp" /\ calls[c].pc = "verify"
    /\ FALSE
    /\ UNCHANGED vars

\* createRemoteJWKSet(new URL(CLOUD_JWKS_URL)) is given no options, so the
\* key-set request has the timeoutDuration of the library (5000 ms): when it
\* passes without an answer jwtVerify throws, verifyAssertion rethrows and
\* stepUp ends with that Error
FetchTimesOut(c) ==
    /\ calls[c].kind = "stepUp" /\ calls[c].pc = "verify"
    /\ calls' = [calls EXCEPT ![c] =
           Throw(calls[c], "request timed out", NoStatusCode)]
    /\ UNCHANGED <<sessions, validations, now, NODE_ENV, JWKS,
                   verifyResult, loginResult, accessVars, selected>>

\* SELECT register_biometric_validation(..., 'accepted', ...)
StepUpRegister(c) ==
    /\ calls[c].kind = "stepUp" /\ calls[c].pc = "register"
    /\ LET validationId == CallUuid(c)
       IN  /\ validations' = validations \cup
                 {ValidationRecord(calls[c].sub, calls[c].login_id,
                      validationId, calls[c].nonce, "accepted")}
           /\ calls' = [calls EXCEPT ![c].validationId = validationId,
                                     ![c].pc = "update"]
    /\ UNCHANGED <<sessions, now, NODE_ENV, JWKS, verifyResult, loginResult,
                   accessVars, selected>>

\* mutant of the failing validation write: the rejection is caught and the
\* call goes on to sign
StepUpRegisterFails_Caught(c) ==
    /\ calls[c].kind = "stepUp" /\ calls[c].pc = "register"
    /\ calls' = [calls EXCEPT ![c].validationId = CallUuid(c),
                              ![c].pc = "update"]
    /\ UNCHANGED <<sessions, validations, now, NODE_ENV, JWKS,
                   verifyResult, loginResult, accessVars, selected>>

\* the register_biometric_validation query of stepUp is rejected: the await
\* throws and nothing catches it
StepUpRegisterFails(c) ==
    /\ calls[c].kind = "stepUp" /\ calls[c].pc = "register"
    /\ calls' = [calls EXCEPT ![c] =
           Throw(calls[c], "Connection terminated unexpectedly",
                 NoStatusCode)]
    /\ UNCHANGED <<sessions, validations, now, NODE_ENV, JWKS,
                   verifyResult, loginResult, accessVars, selected>>

\* signFinalToken, the UPDATE of the session, return finalToken
StepUpUpdate(c) ==
    /\ calls[c].kind = "stepUp" /\ calls[c].pc = "update"
    /\ LET finalToken == signFinalToken(calls[c].sub, "user",
               [validation_id |-> calls[c].validationId, arc |-> "",
                amr |-> <<>>], CallUuid(c))
       IN  /\ sessions' = StepUpUpdateSession(sessions, calls[c].login_id,
                                              finalToken)
           /\ calls' = [calls EXCEPT ![c] = Return(calls[c], finalToken)]
    /\ UNCHANGED <<validations, now, NODE_ENV, JWKS, verifyResult, loginResult,
                   accessVars, selected>>

\* mutant of the failing statements: the session is updated all the same
StepUpUpdateFails_SessionWritten(c, step) ==
    /\ calls[c].kind = "stepUp" /\ calls[c].pc = "update"
    /\ calls' = [calls EXCEPT ![c] =
           Throw(calls[c],
                 IF step = "sign" THEN "secretOrPrivateKey must have a value"
                 ELSE "Connection terminated unexpectedly",
                 NoStatusCode)]
    /\ sessions' = StepUpUpdateSession(sessions, calls[c].login_id,
                        signFinalToken(calls[c].sub, "user",
                            [validation_id |-> calls[c].validationId,
                             arc |-> "", amr |-> <<>>], CallUuid(c)))
    /\ UNCHANGED <<validations, now, NODE_ENV, JWKS,
                   verifyResult, loginResult, accessVars, selected>>

\* stepUp after the validation write when a later statement throws: step is
\* "sign" for TokenService.signFinalToken throwing (no private key) and
\* "update" for the UPDATE of the session being rejected; the Error has no
\* statusCode and stepUp catches nothing, so the call ends with it
StepUpUpdateFails(c, step) ==
    /\ calls[c].kind = "stepUp" /\ calls[c].pc = "update"
    /\ calls' = [calls EXCEPT ![c] =
           Throw(calls[c],
                 IF step = "sign" THEN "secretOrPrivateKey must have a value"
                 ELSE "Connection terminated unexpectedly",
                 NoStatusCode)]
    /\ UNCHANGED <<sessions, validations, now, NODE_ENV, JWKS,
                   verifyResult, loginResult, accessVars, selected>>

\* mutant of the gates of devStepUp: a production build is let through
DevGate_ProductionAllowed(http, login_id) ==
    IF http /\ NODE_ENV \notin {"development", "production"}
    THEN [error |-> "Not allowed", statusCode |-> 403]
    ELSE IF http /\ login_id = NoLoginId
    THEN [error |-> "login_id required", statusCode |-> 400]
    ELSE IF NODE_ENV \notin {"development", "production"}
    THEN [error |-> "devStepUp only allowed in development", statusCode |-> 403]
    ELSE [error |-> "", statusCode |-> 0]

\* the gates in front of devStepUp: for a request over HTTP (http) the
\* controller's res.status(403).json({ error: 'Not allowed' }) and
\* res.status(400).json({ error: 'login_id required' }), then the NODE_ENV
\* gate of the service
DevGate(http, login_id) ==
    IF http /\ NODE_ENV # "development"
    THEN [error |-> "Not allowed", statusCode |-> 403]
    ELSE IF http /\ login_id = NoLoginId
    THEN [error |-> "login_id required", statusCode |-> 400]
    ELSE IF NODE_ENV # "development"
    THEN [error |-> "devStepUp only allowed in development", statusCode |-> 403]
    ELSE [error |-> "", statusCode |-> 0]

\* mutant of the threshold rejection: devStepUp records the rejected attempt
\* before it throws
DevStepUp_RecordsRejection(c, http, login_id, score, points, bmfa) ==
    /\ NextCall(c)
    /\ LET session == getSessionByLoginId(login_id)
           decided == DevScore(score, points, bmfa)
           call == [NoCall EXCEPT !.kind = "devStepUp",
                                  !.login_id = login_id]
           check == DevSessionCheck(session, now)
           gate == DevGate(http, login_id)
           rejected == /\ gate.error = "" /\ check = "ok"
                       /\ DevScoreRejected(decided)
       IN  /\ calls' = [calls EXCEPT ![c] =
                 IF gate.error # ""
                 THEN Throw(call, gate.error, gate.statusCode)
                 ELSE IF check # "ok" THEN Throw(call, check, 400)
                 ELSE IF DevScoreRejected(decided)
                      THEN Throw(call,
                         "Biometric verification failed (score below threshold)",
                         401)
                 ELSE [call EXCEPT !.session = session, !.pc = "register"]]
           /\ validations' =
                 IF rejected
                 THEN validations \cup
                        {ValidationRecord(session.user_id, login_id, CallUuid(c),
                                          session.nonce, "rejected")}
                 ELSE validations
    /\ UNCHANGED <<sessions, now, NODE_ENV, JWKS,
                   verifyResult, loginResult,
                   accessVars, selected>>

\* devStepUp up to the validation write, called directly or (http) through
\* the controller: the gates, getSessionByLoginId, the session checks, the
\* BMFA call (which touches no table and resolves with some normalized points
\* or with null), the simulated score and the threshold check
DevStepUp(c, http, login_id, score, points, bmfa) ==
    /\ NextCall(c)
    /\ LET session == getSessionByLoginId(login_id)
           decided == DevScore(score, points, bmfa)
           call == [NoCall EXCEPT !.kind = "devStepUp",
                                  !.login_id = login_id]
           check == DevSessionCheck(session, now)
           gate == DevGate(http, login_id)
       IN  calls' = [calls EXCEPT ![c] =
               IF gate.error # ""
               THEN Throw(call, gate.error, gate.statusCode)
               ELSE IF check # "ok" THEN Throw(call, check, 400)
               ELSE IF DevScoreRejected(decided)
                    THEN Throw(call,
                       "Biometric verification failed (score below threshold)",
                       401)
               ELSE [call EXCEPT !.session = session, !.pc = "register"]]
    /\ UNCHANGED <<sessions, validations, now, NODE_ENV, JWKS,
                   verifyResult, loginResult,
                   accessVars, selected>>

\* devStepUp called directly with stroke_points, by what the request to the
\* BMFA service comes to: callBMFA is awaited after the session checks, so a
\* rejection would end the call there
DevStepUpCallBMFA(c, login_id, score, points, outcome) ==
    IF /\ callBMFA(outcome).settled = "rejected"
       /\ DevGate(FALSE, login_id).error = ""
       /\ DevSessionCheck(getSessionByLoginId(login_id), now) = "ok"
    THEN /\ NextCall(c)
         /\ calls' = [calls EXCEPT ![c] =
                Throw([NoCall EXCEPT !.kind = "devStepUp"],
                      "BMFA request rejected", NoStatusCode)]
         /\ UNCHANGED <<sessions, validations, now, NODE_ENV, JWKS,
                        verifyResult, loginResult, accessVars, selected>>
    ELSE DevStepUp(c, FALSE, login_id, score, points,
                   callBMFA(outcome).normalized)

\* the devStepUp controller: const { login_id, score, confidence } = req.body
\* and authService.devStepUp({ login_id, score, confidence }); what else the
\* body holds is not passed on
devStepUpArguments(body) ==
    [login_id |-> body.login_id, score |-> body.score, points |-> NoPoints]

\* POST /auth/dev-step-up with the body, the request to the BMFA service (if
\* the service makes one) coming to the outcome
PostDevStepUp(c, body, outcome) ==
    LET args == devStepUpArguments(body)
    IN  DevStepUp(c, TRUE, args.login_id, args.score, args.points,
                  IF args.points = NoPoints THEN BmfaNull
                  ELSE callBMFA(outcome).normalized)

\* SELECT register_biometric_validation(..., 'accepted', ...) (dev mode)
DevRegister(c) ==
    /\ calls[c].kind = "devStepUp" /\ calls[c].pc = "register"
    /\ LET validationId == CallUuid(c)
       IN  /\ validations' = validations \cup
                 {ValidationRecord(calls[c].session.user_id, calls[c].login_id,
                      validationId, calls[c].session.nonce, "accepted")}
           /\ calls' = [calls EXCEPT ![c].validationId = validationId,
                                     ![c].pc = "update"]
    /\ UNCHANGED <<sessions, now, NODE_ENV, JWKS, verifyResult, loginResult,
                   accessVars, selected>>

\* the register_biometric_validation query of devStepUp is rejected
DevRegisterFails(c) ==
    /\ calls[c].kind = "devStepUp" /\ calls[c].pc = "register"
    /\ calls' = [calls EXCEPT ![c] =
           Throw(calls[c], "Connection terminated unexpectedly",
                 NoStatusCode)]
    /\ UNCHANGED <<sessions, validations, now, NODE_ENV, JWKS,
                   verifyResult, loginResult, accessVars, selected>>

\* signFinalToken with arc '2', sessionModel.markSessionCompleted, return
DevMark(c) ==
    /\ calls[c].kind = "devStepUp" /\ calls[c].pc = "update"
    /\ LET finalToken == signFinalToken(calls[c].session.user_id, "user",
               [validation_id |-> calls[c].validationId, arc |-> "2",
                amr |-> <<"pwd", "bio">>], CallUuid(c))
       IN  /\ sessions' = markSessionCompleted(sessions, calls[c].login_id,
                                               finalToken, now)
           /\ calls' = [calls EXCEPT ![c] = Return(calls[c], finalToken)]
    /\ UNCHANGED <<validations, now, NODE_ENV, JWKS, verifyResult, loginResult,
                   accessVars, selected>>

\* sessionModel.expireSession called on its own
ExpireSession(login_id) ==
    /\ login_id \in DOMAIN sessions
    /\ sessions' = expireSession(sessions, login_id)
    /\ sessions' # sessions
    /\ UNCHANGED <<validations, calls, now, NODE_ENV, JWKS,
                   verifyResult, loginResult,
                   accessVars, selected>>

\* sessionModel.createLoginSession({ login_id, user_id, nonce, temp_token,
\* expires_at }) called on its own: the INSERT of a pending row under a
\* login_id that has none
CreateLoginSession(login_id, user_id, nonce, temp_token, expires_at) ==
    /\ Cardinality(DOMAIN sessions) < MaxRows
    /\ login_id \notin DOMAIN sessions
    /\ expires_at <= Horizon
    /\ sessions' = InsertSession(sessions,
           [login_id |-> login_id, user_id |-> user_id, nonce |-> nonce,
            temp_token |-> temp_token, final_token |-> NullToken,
            status |-> "pending", created_at |-> now,
            completed_at |-> -1, expires_at |-> expires_at])
    /\ UNCHANGED <<validations, calls, now, NODE_ENV, JWKS,
                   verifyResult, loginResult, accessVars, selected>>

\* sessionModel.markSessionCompleted(login_id, final_token) called on its own
MarkSessionCompleted(login_id, final_token) ==
    /\ sessions' = markSessionCompleted(sessions, login_id, final_token, now)
    /\ sessions' # sessions
    /\ UNCHANGED <<validations, calls, now, NODE_ENV, JWKS,
                   verifyResult, loginResult, accessVars, selected>>

\* mutant of the read: a read that finds a pending session past its
\* expires_at marks it expired
GetSessionByLoginId_MarksExpired(login_id) ==
    /\ selected' = getSessionByLoginId(login_id)
    /\ sessions' = IF /\ login_id \in DOMAIN sessions
                      /\ sessions[login_id].status = "pending"
                      /\ sessions[login_id].expires_at < now
                   THEN expireSession(sessions, login_id) ELSE sessions
    /\ UNCHANGED <<validations, calls, now, NODE_ENV, JWKS,
                   verifyResult, loginResult, accessVars>>

\* sessionModel.getSessionByLoginId(login_id) called on its own: the SELECT
\* and return rows[0]
GetSessionByLoginId(login_id) ==
    /\ selected' = getSessionByLoginId(login_id)
    /\ UNCHANGED <<sessions, validations, calls, now, NODE_ENV, JWKS,
                   verifyResult, loginResult, accessVars>>

\* time passes
Tick(t) ==
    /\ t > now
    /\ now' = t
    /\ UNCHANGED <<sessions, validations, calls, NODE_ENV, JWKS,
                   verifyResult, loginResult,
                   accessVars, selected>>

\* policyModel.createPolicy({ name, acr_required, is_active }): the INSERT;
\* a name gets one row
CreatePolicy(name, acr_required, is_active) ==
    /\ name \notin DOMAIN policies
    /\ policies' = [n \in DOMAIN policies \cup {name} |->
                      IF n = name
                      THEN [name |-> name, acr_required |-> acr_required,
                            is_active |-> is_active]
                      ELSE policies[n]]
    /\ UNCHANGED <<sessions, validations, calls, now, NODE_ENV, JWKS,
                   verifyResult, loginResult, evaluation, res,
                   selected>>

\* evaluateAccess(userArc, resourceName), its policy query returning rows or
\* failing
EvaluateAccess(userArc, resourceName, query) ==
    /\ evaluation' = evaluateAccess(userArc, resourceName, query)
    /\ UNCHANGED <<sessions, validations, calls, now, NODE_ENV, JWKS,
                   verifyResult, loginResult, policies, res,
                   selected>>

\* a request with req.user = user through requireArc(level)
RequireArc(level, user) ==
    /\ res' = requireArc(level, user)
    /\ UNCHANGED <<sessions, validations, calls, now, NODE_ENV, JWKS,
                   verifyResult, loginResult, policies, evaluation,
                   selected>>

\* a request with req.headers.authorization = authHeader through verifyJWT
VerifyJWT(authHeader) ==
    /\ res' = verifyJWT(authHeader, now)
    /\ UNCHANGED <<sessions, validations, calls, now, NODE_ENV, JWKS,
                   verifyResult, loginResult, policies, evaluation,
                   selected>>

\* what a devStepUp call is given besides login_id: the controller passes
\* login_id, score and confidence only (no stroke_points), and callBMFA runs
\* only when there are stroke_points
DevStepUpInputs ==
    {[http |-> h, score |-> s, points |-> NoPoints, bmfa |-> BmfaNull] :
        h \in BOOLEAN, s \in ScoreInputs \cup {NoScore}}
    \cup {[http |-> FALSE, score |-> s, points |-> p, bmfa |-> b] :
            s \in ScoreInputs \cup {NoScore},
            p \in StrokeCounts \ {NoPoints}, b \in BmfaResults}

\* ------------------------------------------------------ the environment
AllClaims == {RequiredClaims[i] : i \in DOMAIN RequiredClaims}
\* an assertion that passes verifyAssertion while the key set is there
ValidAssertion(login_id, sub, score, nonce) ==
    Assertion(TRUE, TRUE, TRUE, TRUE, TRUE, AllClaims,
              login_id, sub, score, nonce)
\* a valid assertion that arrives while the key set cannot be fetched
UnresolvedAssertion ==
    Assertion(FALSE, TRUE, TRUE, TRUE, TRUE, AllClaims,
              UnknownLoginId, 1, Threshold, BogusNonce)
\* the assertions sent to stepUp
StepUpAssertions ==
    {ValidAssertion(login_id, sub, score, nonce) :
        login_id \in DOMAIN sessions \cup {UnknownLoginId},
        sub \in UserIds, score \in ScoreInputs,
        nonce \in SessionNonces \cup {BogusNonce}}
    \cup {UnresolvedAssertion}

Next ==
    \/ \E user \in UserIds : Login(user)
    \/ \E c \in {d \in Calls : NextCall(d)}, a \in StepUpAssertions :
          StepUpRequest(c, a)
    \/ \E c \in Calls : StepUpRegister(c)
    \/ \E c \in Calls : StepUpUpdate(c)
    \/ \E c \in {d \in Calls : NextCall(d)},
          login_id \in DOMAIN sessions \cup {UnknownLoginId, NoLoginId},
          i \in DevStepUpInputs :
            DevStepUp(c, i.http, login_id, i.score, i.points, i.bmfa)
    \/ \E c \in Calls : DevRegister(c)
    \/ \E c \in Calls : DevMark(c)
    \/ \E login_id \in DOMAIN sessions : ExpireSession(login_id)
    \/ \E t \in Instants : Tick(t)

Spec == Init /\ [][Next]_vars

\* ---------------------------------------------- the verifier on its own
\* what can be wrong with an assertion for jwtVerify
Defects == {"none", "resolvable", "signature", "iss", "aud", "fresh"}
\* assertions with at most one such defect and at most one required claim
\* missing, sent before any login
VerifyAssertions ==
    {Assertion(d # "resolvable", d # "signature", d # "iss", d # "aud",
               d # "fresh", claims, login_id, 1, Threshold, BogusNonce) :
        d \in Defects,
        claims \in {AllClaims} \cup {AllClaims \ {r} : r \in AllClaims},
        login_id \in {UnknownLoginId, 1}}
ExpectedLoginIds == {NoExpectedLoginId, UnknownLoginId, 1}

VerifyNext ==
    \/ \E c \in Calls, a \in VerifyAssertions : StepUpRequest(c, a)
    \/ \E a \in VerifyAssertions, expectedLoginId \in ExpectedLoginIds :
          VerifyAssertion(a, expectedLoginId)

VerifySpec == Init /\ [][VerifyNext]_vars

\* ------------------------------------------- the services under failures
\* a development build with the key set there, in which the statements after
\* the validation write may fail
FaultInit == Init /\ NODE_ENV = "development" /\ JWKS = "set"

FaultNext ==
    \/ Next
    \/ \E c \in Calls, step \in {"sign", "update"} : StepUpUpdateFails(c, step)

FaultSpec == FaultInit /\ [][FaultNext]_vars

\* --------------------------------- devStepUp with stroke_points on its own
\* a development build in which every devStepUp call is a direct one with
\* stroke_points and no score, the request to the BMFA service coming to any
\* of its outcomes
BmfaNext ==
    \/ \E user \in UserIds : Login(user)
    \/ \E c \in {d \in Calls : NextCall(d)},
          login_id \in DOMAIN sessions \cup {UnknownLoginId},
          points \in StrokeCounts \ {NoPoints}, outcome \in BmfaOutcomes :
          DevStepUpCallBMFA(c, login_id, NoScore, points, outcome)
    \/ \E c \in Calls : DevRegister(c)
    \/ \E c \in Calls : DevMark(c)
    \/ \E login_id \in DOMAIN sessions : ExpireSession(login_id)
    \/ \E t \in Instants : Tick(t)

BmfaSpec == FaultInit /\ [][BmfaNext]_vars

\* ------------------------------------------ the dev-step-up endpoint
\* a development build in which every devStepUp call is a request to the
\* endpoint: bodies with or without login_id, score and stroke_points
PostedBodies ==
    {[login_id |-> l, score |-> sc, stroke_points |-> pts] :
        l \in DOMAIN sessions \cup {UnknownLoginId, NoLoginId},
        sc \in ScoreInputs \cup {NoScore},
        pts \in StrokeCounts \cup {60}}

EndpointNext ==
    \/ \E user \in UserIds : Login(user)
    \/ \E c \in {d \in Calls : NextCall(d)}, body \in PostedBodies,
          outcome \in BmfaOutcomes : PostDevStepUp(c, body, outcome)
    \/ \E c \in Calls : DevRegister(c)
    \/ \E c \in Calls : DevMark(c)
    \/ \E login_id \in DOMAIN sessions : ExpireSession(login_id)
    \/ \E t \in Instants : Tick(t)

EndpointSpec == FaultInit /\ [][EndpointNext]_vars

\* --------------------------------------- stepUp for the subject of another
\* the id of a user other than the owners of the sessions
OtherUserId == 2

\* verified assertions for the sessions there are, carrying the nonce of the
\* session and the sub of its owner or of the other user
SubjectAssertions ==
    {ValidAssertion(l, sub, score, sessions[l].nonce) :
        l \in DOMAIN sessions, sub \in UserIds \cup {OtherUserId},
        score \in Scores}

SubjectNext ==
    \/ \E user \in UserIds : Login(user)
    \/ \E c \in {d \in Calls : NextCall(d)}, a \in SubjectAssertions :
          StepUpRequest(c, a)
    \/ \E c \in Calls : StepUpRegister(c)
    \/ \E c \in Calls : StepUpUpdate(c)
    \/ \E login_id \in DOMAIN sessions : ExpireSession(login_id)
    \/ \E t \in Instants : Tick(t)

SubjectInit == Init /\ NODE_ENV = "production" /\ JWKS = "set"

SubjectSpec == SubjectInit /\ [][SubjectNext]_vars

\* ----------------------------------- access control while the lookup fails
\* a deployment in which every policy query of evaluateAccess fails, with
\* policies in the table and the arc of every token presented
LookupFailsNext ==
    \/ \E user \in UserIds : Login(user)
    \/ \E login_id \in DOMAIN sessions : ExpireSession(login_id)
    \/ \E t \in Instants : Tick(t)
    \/ \E name \in ResourceNames, acr_required \in ArcLevels,
          is_active \in BOOLEAN : CreatePolicy(name, acr_required, is_active)
    \/ \E userArc \in ArcInputs, resourceName \in ResourceNames :
          EvaluateAccess(userArc, resourceName, "error")

LookupFailsInit == Init /\ NODE_ENV = "production" /\ JWKS = "set"

LookupFailsSpec == LookupFailsInit /\ [][LookupFailsNext]_vars

\* ------------------------------------------------ login under failures
\* logins that succeed or fail at one of their statements, with the step-ups
\* of the sessions created
LoginNext ==
    \/ \E user \in UserIds : Login(user)
    \/ \E user \in UserIds, step \in {"password", "sign", "insert"} :
          LoginFails(user, step)
    \/ \E c \in {d \in Calls : NextCall(d)}, l \in DOMAIN sessions :
          StepUpRequest(c, ValidAssertion(l, sessions[l].user_id, Threshold,
                                          sessions[l].nonce))
    \/ \E c \in Calls : StepUpRegister(c)
    \/ \E c \in Calls : StepUpUpdate(c)
    \/ \E login_id \in DOMAIN sessions : ExpireSession(login_id)
    \/ \E t \in Instants : Tick(t)

LoginSpec == SubjectInit /\ [][LoginNext]_vars

\* ------------------------------------------- devStepUp without a score
\* numbers of stroke points: none, the ones on either side of the threshold,
\* and one past the cap
PointCounts == {0, 59, 60, 101}

\* a development build in which every devStepUp call is a direct one without
\* a score: with no stroke_points, or with stroke_points that the BMFA
\* service leaves as they are or returns normalized to another number
SimulationNext ==
    \/ \E user \in UserIds : Login(user)
    \/ \E c \in {d \in Calls : NextCall(d)},
          login_id \in DOMAIN sessions \cup {UnknownLoginId},
          points \in PointCounts \cup {NoPoints},
          bmfa \in PointCounts \cup {BmfaNull} :
          /\ points = NoPoints => bmfa = BmfaNull
          /\ DevStepUp(c, FALSE, login_id, NoScore, points, bmfa)
    \/ \E c \in Calls : DevRegister(c)
    \/ \E c \in Calls : DevMark(c)
    \/ \E login_id \in DOMAIN sessions : ExpireSession(login_id)
    \/ \E t \in Instants : Tick(t)

SimulationSpec == FaultInit /\ [][SimulationNext]_vars

\* ----------------------------------- the validation write under failures
\* a development build in which the validation write of a stepUp call (with
\* a valid assertion) or of a devStepUp call (through the controller, with a
\* score at the threshold) may be rejected
WriteFailsNext ==
    \/ \E user \in UserIds : Login(user)
    \/ \E c \in {d \in Calls : NextCall(d)}, l \in DOMAIN sessions :
          StepUpRequest(c, ValidAssertion(l, sessions[l].user_id, Threshold,
                                          sessions[l].nonce))
    \/ \E c \in Calls : StepUpRegister(c)
    \/ \E c \in Calls : StepUpRegisterFails(c)
    \/ \E c \in Calls : StepUpUpdate(c)
    \/ \E c \in {d \in Calls : NextCall(d)}, l \in DOMAIN sessions :
          DevStepUp(c, TRUE, l, Threshold, NoPoints, BmfaNull)
    \/ \E c \in Calls : DevRegister(c)
    \/ \E c \in Calls : DevRegisterFails(c)
    \/ \E c \in Calls : DevMark(c)
    \/ \E login_id \in DOMAIN sessions : ExpireSession(login_id)
    \/ \E t \in Instants : Tick(t)

WriteFailsSpec == FaultInit /\ [][WriteFailsNext]_vars

\* ------------------------------- stepUp with the key-set request as a step
\* the key-set request of every stepUp call is a step of its own, which the
\* environment may leave unanswered for ever; the timer of the request is a
\* timer of the event loop and fires if it stays armed
FetchInit == Init /\ NODE_ENV = "production"

\* the assertions sent while the key set is fetched per request: the valid
\* ones for the sessions there are, and one whose key-set request is answered
\* with an error
FetchAssertions ==
    {ValidAssertion(l, sessions[l].user_id, score, sessions[l].nonce) :
        l \in DOMAIN sessions, score \in Scores}
    \cup {UnresolvedAssertion}

FetchNext ==
    \/ \E user \in UserIds : Login(user)
    \/ \E c \in {d \in Calls : NextCall(d)}, a \in FetchAssertions :
          StepUpFetch(c, a)
    \/ \E c \in Calls, a \in FetchAssertions : FetchAnswers(c, a)
    \/ \E c \in Calls : FetchTimesOut(c)
    \/ \E c \in Calls : StepUpRegister(c)
    \/ \E c \in Calls : StepUpUpdate(c)
    \/ \E t \in Instants : Tick(t)

FetchSpec ==
    /\ FetchInit /\ [][FetchNext]_vars
    /\ \A c \in Calls : WF_vars(FetchTimesOut(c))

\* ------------------------------------------- the session model on its own
\* sessions are created through the session model, so that several exist
\* side by side; markSessionCompleted stores a final token signed for the
\* owner of the session
ModelTokens(login_id) ==
    {signFinalToken(sessions[login_id].user_id, "user",
         [validation_id |-> 0, arc |-> "2", amr |-> <<"pwd", "bio">>],
         login_id)}

\* the operations of session.model.js called on their own, and the clock
ReadNext ==
    \/ \E user \in UserIds :
          CreateLoginSession(LoginUuid, user, LoginUuid,
              signTempToken([sub |-> user, login_id |-> LoginUuid,
                             nonce |-> LoginUuid], LoginUuid),
              now + TempTokenTtlSeconds)
    \/ \E login_id \in DOMAIN sessions \cup {UnknownLoginId} :
          GetSessionByLoginId(login_id)
    \/ \E login_id \in DOMAIN sessions :
          \E final_token \in ModelTokens(login_id) :
            MarkSessionCompleted(login_id, final_token)
    \/ \E login_id \in DOMAIN sessions : ExpireSession(login_id)
    \/ \E t \in Instants : Tick(t)

ReadSpec == FaultInit /\ [][ReadNext]_vars

\* a development build at one instant in which every operation that writes a
\* session runs on the sessions there are: markSessionCompleted and
\* expireSession called on their own, and, one request after the other,
\* stepUp with the valid assertions and devStepUp through the controller
InFlight == {c \in Calls : calls[c].pc \notin {"idle", "done"}}

ModelNext ==
    \/ \E user \in UserIds :
          CreateLoginSession(LoginUuid, user, LoginUuid,
              signTempToken([sub |-> user, login_id |-> LoginUuid,
                             nonce |-> LoginUuid], LoginUuid),
              now + TempTokenTtlSeconds)
    \/ \E login_id \in DOMAIN sessions :
          \E final_token \in ModelTokens(login_id) :
            MarkSessionCompleted(login_id, final_token)
    \/ \E login_id \in DOMAIN sessions : ExpireSession(login_id)
    \/ \E c \in {d \in Calls : NextCall(d) /\ InFlight = {}},
          login_id \in DOMAIN sessions :
          StepUpRequest(c, ValidAssertion(login_id, sessions[login_id].user_id,
                                          Threshold, sessions[login_id].nonce))
    \/ \E c \in Calls : StepUpRegister(c)
    \/ \E c \in Calls : StepUpUpdate(c)
    \/ \E c \in {d \in Calls : NextCall(d) /\ InFlight = {}},
          login_id \in DOMAIN sessions :
          DevStepUp(c, TRUE, login_id, Threshold, NoPoints, BmfaNull)
    \/ \E c \in Calls : DevRegister(c)
    \/ \E c \in Calls : DevMark(c)

ModelSpec == FaultInit /\ [][ModelNext]_vars

\* ------------------------------------------- access control on its own
\* the claims of the tokens presented: the temp tokens of the sessions (as
\* login issued them), and for every arc input a final token of user 1
\* carrying it
PresentedTokens ==
    {sessions[l].temp_token : l \in DOMAIN sessions}
    \cup {[signFinalToken(1, "user", [validation_id |-> 0, arc |-> "",
                                       amr |-> <<>>], 1)
             EXCEPT !.arc = arc] : arc \in ArcInputs}

\* the Authorization headers presented: none, one of another scheme, 'Bearer'
\* with a string that is no JWT, and 'Bearer' with the temp token of a session
\* as login signed it (expiring TEMP_TOKEN_TTL_SECONDS after the login) or
\* with that token and one thing wrong: a signature that does not verify,
\* another alg, or another issuer
AuthorizationHeaders ==
    {NoAuthorization, [scheme |-> "Basic", token |-> NoJwt],
     [scheme |-> "Bearer", token |-> NoJwt]}
    \cup {[scheme |-> "Bearer",
           token |-> [Jwt(sessions[l].temp_token, sessions[l].expires_at)
                        EXCEPT !.signature = sig, !.alg = alg, !.iss = iss]] :
            l \in DOMAIN sessions,
            sig \in BOOLEAN, alg \in {ALGO, "HS256"}, iss \in {ISS, "other"}}

AccessInit == Init /\ NODE_ENV = "production" /\ JWKS = "set"

AccessNext ==
    \/ \E user \in UserIds : Login(user)
    \/ \E login_id \in DOMAIN sessions : ExpireSession(login_id)
    \/ \E t \in Instants : Tick(t)
    \/ \E acr_required \in ArcLevels, is_active \in BOOLEAN :
          CreatePolicy("sensitive_api", acr_required, is_active)
    \/ \E userArc \in ArcInputs, resourceName \in ResourceNames,
          query \in {"rows", "error"} :
          EvaluateAccess(userArc, resourceName, query)
    \/ \E level \in ArcLevels, user \in PresentedTokens :
          RequireArc(level, user)
    \/ \E authHeader \in AuthorizationHeaders : VerifyJWT(authHeader)

AccessSpec == AccessInit /\ [][AccessNext]_vars

\* ---------------------------------------------------------------- claims
\* the step starts call c, as every StepUp(c, ...) and DevStepUp(c, ...) step
\* does and no other
Starts(c) == calls[c].pc = "idle" /\ calls'[c].pc # "idle"
\* the step is a stepUp call c for login_id l with a verified assertion
\* carrying the nonce, whatever its sub and score
IsStepUp(c, l, nonce) ==
    \E sub \in UserIds, score \in ScoreInputs : StepUp(c, "ok", l, sub, score, nonce)
\* the step is a stepUp call c whose assertion failed verification
IsUnverifiedStepUp(c) ==
    \E a \in StepUpAssertions :
        verifyAssertion(JWKS, a, NoExpectedLoginId) # "ok" /\ StepUpRequest(c, a)
\* the step is a devStepUp call c for login_id l, whatever its other inputs
IsDevStepUp(c, l) ==
    \E i \in DevStepUpInputs :
        DevStepUp(c, i.http, l, i.score, i.points, i.bmfa)
NonceInputs == SessionNonces \cup {BogusNonce}
Pending(l) == sessions[l].status = "pending"
\* the expiry test of the code is expires_at < now
Expired(l) == sessions[l].expires_at < now
StepUpCalls(l) == {c \in Calls : calls[c].kind = "stepUp" /\ calls[c].login_id = l}
\* calls that ended with the error message and status code
Failed(c, message, statusCode) ==
    /\ calls[c].pc = "done" /\ calls[c].error = message
    /\ calls[c].statusCode = statusCode /\ calls[c].result = NullToken
Returned(c) == calls[c].pc = "done" /\ calls[c].result # NullToken
\* the same, of the state a step leads to
FailedNext(c, message, statusCode) ==
    /\ calls'[c].pc = "done" /\ calls'[c].error = message
    /\ calls'[c].statusCode = statusCode /\ calls'[c].result = NullToken
    /\ calls'[c].validationId = 0

\* C1: of the stepUp calls that passed the session and threshold checks for
\* one login_id (the calls that raced for a pending session with valid
\* assertions) and have ended, exactly one returned a final credential and
\* every other one failed with 'Login session not pending'.
C1_ExactlyOneWinner ==
    \A l \in DOMAIN sessions :
        \A c1, c2 \in StepUpCalls(l) :
            (/\ c1 # c2
             /\ calls[c1].pc = "done" /\ calls[c1].validationId # 0
             /\ calls[c2].pc = "done" /\ calls[c2].validationId # 0)
            => \/ Returned(c1) /\ Failed(c2, "Login session not pending", 400)
               \/ Returned(c2) /\ Failed(c1, "Login session not pending", 400)

\* C2: a final credential returned by stepUp or devStepUp for a login_id is
\* the final_token stored in that session.
C2_ReturnedIsStored ==
    \A c \in Calls :
        Returned(c) => sessions[calls[c].login_id].final_token = calls[c].result

\* C3: every session has final_token non-null if and only if its status is
\* 'completed'.
C3_FinalTokenIffCompleted ==
    \A l \in DOMAIN sessions :
        (sessions[l].final_token # NullToken) <=> (sessions[l].status = "completed")

\* C4: no step changes the status of a session that is 'completed' or
\* 'expired'.
C4_TerminalStatus ==
    [][\A l \in DOMAIN sessions :
         ~Pending(l) => sessions'[l].status = sessions[l].status]_vars

\* C5: the completing update of stepUp or devStepUp, run on a session that is
\* not 'pending', leaves the session row exactly as it was.
C5_NoMutationWhenNotPending ==
    [][\A c \in Calls :
         (/\ calls[c].pc = "update" /\ calls'[c].pc = "done"
          /\ ~Pending(calls[c].login_id))
         => sessions'[calls[c].login_id] = sessions[calls[c].login_id]]_vars

\* C6: no session becomes 'completed' at a time later than its expires_at.
C6_NoCompletionAfterExpiry ==
    [][\A l \in DOMAIN sessions :
         (sessions[l].status # "completed" /\ sessions'[l].status = "completed")
         => ~Expired(l)]_vars

\* C7: stepUp with a verified assertion whose nonce differs from the nonce of
\* a pending, unexpired session fails with 'Nonce mismatch' (400) whatever
\* the score (0.99 included), changes no session, writes no validation
\* record and issues no credential.
C7_NonceMismatchRejected ==
    [][\A c \in Calls : Starts(c) =>
         \A l \in DOMAIN sessions : (Pending(l) /\ ~Expired(l)) =>
           \A sub \in UserIds, score \in ScoreInputs \cup {9900}, nonce \in NonceInputs :
             (/\ nonce # sessions[l].nonce
              /\ StepUp(c, "ok", l, sub, score, nonce))
             => /\ FailedNext(c, "Nonce mismatch", 400)
                /\ sessions' = sessions /\ validations' = validations]_vars

\* a stepUp call has failed on the nonce of the only session there is, which
\* is still pending and unexpired
C7_Witness ==
    \E c \in Calls :
        /\ calls[c].kind = "stepUp" /\ Failed(c, "Nonce mismatch", 400)
        /\ DOMAIN sessions = {1}
        /\ Pending(1) /\ ~Expired(1)
        /\ validations = {}

\* C8: stepUp with a verified assertion carrying the matching nonce and a
\* score >= threshold, on a pending session whose expires_at is earlier than
\* the current time, fails with 'Login session expired' (400) and does not
\* complete the session.
C8_ExpiredRejected ==
    [][\A c \in Calls : Starts(c) =>
         \A l \in DOMAIN sessions : (Pending(l) /\ Expired(l)) =>
           \A sub \in UserIds, score \in Scores :
             (/\ score >= Threshold
              /\ StepUp(c, "ok", l, sub, score, sessions[l].nonce))
             => /\ FailedNext(c, "Login session expired", 400)
                /\ sessions' = sessions /\ sessions'[l].status = "pending"]_vars

\* a step-up 130 seconds after creation with the TTL of 120 seconds
C8_Witness ==
    \E c \in Calls :
        /\ calls[c].kind = "stepUp" /\ Failed(c, "Login session expired", 400)
        /\ DOMAIN sessions = {1}
        /\ Pending(1)
        /\ sessions[1].expires_at = sessions[1].created_at + 120
        /\ now = sessions[1].created_at + 130

\* a session has been completed exactly when it carries a final_token: every
\* completing update stores one and no statement clears it
HasBeenCompleted(l) == sessions[l].final_token # NullToken

\* C9: a stepUp call with a verified assertion, or a devStepUp call in a
\* development build, that reads a session which has been completed fails
\* with 'Login session not pending' (400), whatever its inputs (the accepted
\* assertion included); no stepUp or devStepUp call that reads such a session
\* returns a credential or writes a validation record.
C9_CompletedSessionRejects ==
    [][\A c \in Calls : Starts(c) =>
         /\ (/\ calls'[c].kind = "stepUp"
             /\ ~FailedNext(c, "Login session not pending", 400))
              => \A l \in DOMAIN sessions : HasBeenCompleted(l) =>
                   \A nonce \in NonceInputs : ~IsStepUp(c, l, nonce)
         /\ (/\ calls'[c].kind = "devStepUp"
             /\ \/ /\ NODE_ENV = "development"
                   /\ ~FailedNext(c, "Login session not pending", 400)
                \/ ~(/\ calls'[c].pc = "done" /\ calls'[c].result = NullToken
                      /\ calls'[c].validationId = 0
                      /\ sessions' = sessions /\ validations' = validations))
              => \A l \in DOMAIN sessions : HasBeenCompleted(l) =>
                   ~IsDevStepUp(c, l)
         /\ (/\ calls'[c].kind = "stepUp"
             /\ ~(/\ calls'[c].pc = "done" /\ calls'[c].result = NullToken
                   /\ calls'[c].validationId = 0
                   /\ sessions' = sessions /\ validations' = validations))
              => ~IsUnverifiedStepUp(c)]_vars

\* an accepted stepUp call, then a later stepUp call that found the same
\* session (the only one there is) not pending
C9_Witness ==
    \E c1, c2 \in Calls :
        /\ c1 < c2
        /\ calls[c1].kind = "stepUp" /\ calls[c2].kind = "stepUp"
        /\ DOMAIN sessions = {calls[c1].login_id}
        /\ Returned(c1)
        /\ Failed(c2, "Login session not pending", 400)
        /\ Cardinality(validations) = 1

\* C10: stepUp with a verified assertion carrying the matching nonce, on a
\* pending and unexpired session: with a score below the threshold it fails
\* as unauthorized (401), leaves the session 'pending' with final_token null
\* and issues no credential; with a score >= threshold it passes the checks,
\* whatever was rejected before, and a call that passed the checks ends by
\* returning the final credential it stored.
C10_RejectedLeavesPending ==
    [][\A c \in Calls :
         /\ (Starts(c) /\ calls'[c].kind = "stepUp") =>
            \A l \in DOMAIN sessions, sub \in UserIds, score \in Scores :
              (/\ Pending(l) /\ ~Expired(l)
               /\ StepUp(c, "ok", l, sub, score, sessions[l].nonce))
              => IF score < Threshold
                 THEN /\ FailedNext(c, "Biometric verification failed", 401)
                      /\ sessions' = sessions /\ validations' = validations
                      /\ Pending(l) /\ sessions[l].final_token = NullToken
                 ELSE calls'[c].pc = "register" /\ calls'[c].error = ""
         /\ (calls[c].kind = "stepUp" /\ calls[c].pc \in {"register", "update"})
              => /\ calls'[c].error = ""
                 /\ calls'[c].pc = "done" =>
                      /\ calls'[c].result # NullToken
                      /\ sessions'[calls[c].login_id].final_token
                           = calls'[c].result]_vars

\* a stepUp call rejected on the score, then a later one for the same session
\* (the only one there is) that is accepted and completes it
C10_Witness ==
    \E c1, c2 \in Calls :
        /\ c1 < c2
        /\ calls[c1].kind = "stepUp" /\ calls[c2].kind = "stepUp"
        /\ DOMAIN sessions = {calls[c2].login_id}
        /\ Failed(c1, "Biometric verification failed", 401)
        /\ Returned(c2)
        /\ sessions[calls[c2].login_id].status = "completed"
        /\ sessions[calls[c2].login_id].final_token = calls[c2].result

\* the accepted validation records of a login_id in a set of records
Accepted(recs, l) == {v \in recs : v.login_id = l /\ v.decision = "accepted"}

\* C11: every session that is 'completed' has an accepted validation record
\* with its login_id, and at every step that makes a session 'completed' that
\* record is already there before the step.
C11_ValidationBeforeCompletion ==
    [][\A l \in DOMAIN sessions' :
         sessions'[l].status = "completed" =>
           /\ Accepted(validations', l) # {}
           /\ (l \in DOMAIN sessions /\ sessions[l].status # "completed")
                => Accepted(validations, l) # {}]_vars

\* a session completed by stepUp, with its accepted validation record
C11_Witness ==
    \E c \in Calls, l \in DOMAIN sessions :
        /\ calls[c].kind = "stepUp" /\ Returned(c) /\ calls[c].login_id = l
        /\ sessions[l].status = "completed"
        /\ Accepted(validations, l) # {}

\* the elements of a list
Elements(list) == {list[i] : i \in DOMAIN list}

\* C12: every final credential returned by stepUp has arc '1.0', an amr list
\* with both 'pwd' and 'bio', and the validation_id of the accepted validation
\* record written in the same call.
C12_StepUpCredentialClaims ==
    \A c \in Calls :
        (calls[c].kind = "stepUp" /\ Returned(c)) =>
            /\ calls[c].result.arc = "1.0"
            /\ {"pwd", "bio"} \subseteq Elements(calls[c].result.amr)
            /\ calls[c].result.validation_id = calls[c].validationId
            /\ \E v \in Accepted(validations, calls[c].login_id) :
                  v.validation_id = calls[c].result.validation_id

\* C13: with NODE_ENV other than 'development' (unset included) every
\* devStepUp call, direct or through the controller, ends at once with status
\* 403 and no credential, changes no session and writes no validation record,
\* whatever its inputs and the state of the sessions.
C13_DevFailsClosed ==
    [][\A c \in Calls :
         (/\ Starts(c) /\ calls'[c].kind = "devStepUp"
          /\ NODE_ENV # "development"
          /\ ~(/\ calls'[c].pc = "done" /\ calls'[c].statusCode = 403
                /\ calls'[c].error # ""
                /\ calls'[c].result = NullToken /\ calls'[c].validationId = 0
                /\ sessions' = sessions /\ validations' = validations))
         => \A l \in DOMAIN sessions \cup {UnknownLoginId, NoLoginId} :
              ~IsDevStepUp(c, l)]_vars

\* with NODE_ENV unset and a pending session, one devStepUp call stopped by
\* the controller and one stopped by the service
C13_Witness ==
    \E c1, c2 \in Calls :
        /\ NODE_ENV = ""
        /\ calls[c1].kind = "devStepUp" /\ Failed(c1, "Not allowed", 403)
        /\ calls[c2].kind = "devStepUp"
        /\ Failed(c2, "devStepUp only allowed in development", 403)
        /\ \E l \in DOMAIN sessions : Pending(l) /\ ~Expired(l)
        /\ validations = {}

\* the outcome category of a call after its first step
Outcome(call) ==
    IF call.pc = "register" THEN "accept"
    ELSE IF call.error \in {"Biometric verification failed",
                 "Biometric verification failed (score below threshold)"}
    THEN "score too low"
    ELSE call.error
\* the outcome stepUp reaches for login_id l and a score, given a verified
\* assertion with the session's nonce
StepUpOutcome(l, score) ==
    LET session == getSessionByLoginId(l)
        check == StepUpSessionCheck(session, session.nonce, now)
    IN  IF check # "ok" THEN check
        ELSE IF StepUpScoreRejected(score) THEN "score too low" ELSE "accept"
\* the outcome devStepUp reaches for login_id l and a supplied score
DevOutcome(l, score) ==
    LET check == DevSessionCheck(getSessionByLoginId(l), now)
    IN  IF check # "ok" THEN check
        ELSE IF DevScoreRejected(score) THEN "score too low" ELSE "accept"

\* C14: in every session state and for every supplied score, stepUp with a
\* verified assertion carrying the session's nonce ends as devStepUp in a
\* development build would in that state, and devStepUp as stepUp would;
\* neither changes a session unless it accepts.
C14_DevEquivalentToStepUp ==
    [][\A c \in Calls : Starts(c) =>
         \A l \in DOMAIN sessions \cup {UnknownLoginId}, score \in ScoreInputs :
           /\ \A sub \in UserIds :
                StepUp(c, "ok", l, sub, score, getSessionByLoginId(l).nonce)
                => /\ Outcome(calls'[c]) = DevOutcome(l, score)
                   /\ sessions' = sessions
           /\ \A http \in BOOLEAN :
                (/\ NODE_ENV = "development"
                 /\ DevStepUp(c, http, l, score, NoPoints, BmfaNull))
                => /\ Outcome(calls'[c]) = StepUpOutcome(l, score)
                   /\ sessions' = sessions]_vars

\* C15: a stepUp step completes a session only for a call whose assertion
\* verifyAssertion accepted and which names that session's login_id; and while
\* the key set is missing (JWKS null) or cannot be fetched, every stepUp call
\* fails at once, changing no session and writing no validation record.
C15_NoCompletionWithoutVerification ==
    [][\A c \in Calls :
         /\ (/\ calls[c].kind = "stepUp" /\ calls[c].pc = "update"
             /\ calls'[c].pc = "done") =>
              \A l \in DOMAIN sessions :
                sessions'[l] # sessions[l] =>
                  /\ calls[c].verified /\ calls[c].login_id = l
                  /\ JWKS = "set"
         /\ (/\ Starts(c) /\ calls'[c].kind = "stepUp"
             /\ ~(/\ calls'[c].pc = "done" /\ calls'[c].error # ""
                   /\ calls'[c].result = NullToken
                   /\ calls'[c].validationId = 0
                   /\ sessions' = sessions /\ validations' = validations))
              => \A a \in StepUpAssertions :
                   (JWKS = "null" \/ ~a.resolvable) => ~StepUpRequest(c, a)]_vars

\* without a key set, a stepUp call for a pending session has failed and the
\* session is as it was
C15_Witness ==
    \E c \in Calls, l \in DOMAIN sessions :
        /\ JWKS = "null"
        /\ calls[c].kind = "stepUp"
        /\ Failed(c, "JWKS not configured or invalid", NoStatusCode)
        /\ Pending(l) /\ ~Expired(l) /\ sessions[l].final_token = NullToken

\* a stepUp call that ended in verifyAssertion: its Error has no statusCode
VerificationFailed(c) ==
    /\ calls[c].kind = "stepUp" /\ calls[c].pc = "done"
    /\ calls[c].error # "" /\ calls[c].statusCode = NoStatusCode

\* C16: any two stepUp calls that failed in assertion verification get the
\* same HTTP response, status code and body.
C16_VerificationFailuresAlike ==
    \A c1, c2 \in Calls :
        (VerificationFailed(c1) /\ VerificationFailed(c2))
        => StepUpResponse(calls[c1], NODE_ENV)
             = StepUpResponse(calls[c2], NODE_ENV)

\* C18: verifyAssertion, with the key set there, on an assertion that passes
\* jwtVerify and lacks one of sub, login_id, score, nonce fails with 'Missing
\* required claim' for that claim, with and without an expectedLoginId.
C18_MissingClaimRejected ==
    [][\A a \in VerifyAssertions, expectedLoginId \in ExpectedLoginIds :
         (/\ JWKS = "set" /\ jwtVerify(a) = "" /\ a.claims # AllClaims
          /\ VerifyAssertion(a, expectedLoginId))
         => verifyResult' \in {"Missing required claim " \o r :
                                 r \in AllClaims \ a.claims}]_vars

\* the same session row with 'completed' and 'expired' exchanged
Twin(session) ==
    [session EXCEPT !.status = IF @ = "completed" THEN "expired"
                               ELSE "completed"]

\* C17: the response of stepUp (verified assertion) and of devStepUp
\* (development build) for a session that is 'completed' or 'expired' is the
\* response the same input gets for the same session with the other of the
\* two statuses: 400 with the same message.
C17_CompletedAndExpiredAlike ==
    [][\A c \in Calls : Starts(c) =>
         \A l \in DOMAIN sessions :
           sessions[l].status \in {"completed", "expired"} =>
             /\ calls'[c].kind = "stepUp" =>
                  \A nonce \in NonceInputs :
                    ~(/\ calls'[c].pc = "done"
                      /\ StepUpResponse(calls'[c], NODE_ENV) =
                           errorHandler(StepUpSessionCheck(Twin(sessions[l]),
                                            nonce, now), 400, NODE_ENV))
                    => ~IsStepUp(c, l, nonce)
             /\ (/\ calls'[c].kind = "devStepUp"
                 /\ NODE_ENV = "development"
                 /\ ~(/\ calls'[c].pc = "done"
                       /\ StepUpResponse(calls'[c], NODE_ENV) =
                            errorHandler(DevSessionCheck(Twin(sessions[l]),
                                             now), 400, NODE_ENV)))
                => ~IsDevStepUp(c, l)]_vars

\* a session expired without ever being completed, and a stepUp call and a
\* devStepUp call that found it so
C17_Witness ==
    \E c1, c2 \in Calls :
        /\ DOMAIN sessions = {1}
        /\ sessions[1].status = "expired"
        /\ sessions[1].final_token = NullToken
        /\ calls[c1].kind = "stepUp"
        /\ Failed(c1, "Login session not pending", 400)
        /\ calls[c2].kind = "devStepUp"
        /\ Failed(c2, "Login session not pending", 400)

C20_CompletedAtSet ==
    \A l \in DOMAIN sessions :
        sessions[l].status = "completed" => sessions[l].completed_at # -1

\* the required level of a resource, in units of 1/10: the acr_required of its
\* active policy, 0.5 when it has none
RequiredLevel(resourceName) ==
    IF resourceName \in DOMAIN policies /\ policies[resourceName].is_active
    THEN parseFloat(policies[resourceName].acr_required)
    ELSE 5
\* the numeric value of an arc claim, 0 for a missing one
ArcValue(arc) == IF arc = "" THEN 0 ELSE parseFloat(arc)

\* C21: for every arc value and every resource, evaluateAccess returns
\* allowed = true exactly when the numeric value of the arc is >= the required
\* level of the resource.
C21_AllowedIffArcAtLeastRequired ==
    [][\A userArc \in ArcInputs, resourceName \in ResourceNames,
          query \in {"rows", "error"} :
         EvaluateAccess(userArc, resourceName, query)
         => (evaluation'.allowed
               <=> NumGeq(ArcValue(userArc), RequiredLevel(resourceName)))]_vars

\* C22: the temp credential of every session, whatever the state of the
\* session, is denied where level 1.0 is required: requireArc('1.0') responds
\* 403 and does not call next(), evaluateAccess for a resource whose required
\* level is 1.0 returns allowed = false, and neither touches a session.
C22_TempCredentialDenied ==
    [][\A l \in DOMAIN sessions :
         /\ RequireArc("1.0", sessions[l].temp_token)
              => /\ res'.status = 403 /\ ~res'.next
                 /\ sessions' = sessions
         /\ \A resourceName \in ResourceNames, query \in {"rows", "error"} :
              (/\ RequiredLevel(resourceName) = 10
               /\ EvaluateAccess(sessions[l].temp_token.arc, resourceName,
                                 query))
              => ~evaluation'.allowed /\ sessions' = sessions]_vars

\* C23: when signing the final token or the session update fails in a stepUp
\* call that has written its validation record, the record stays, no record
\* is removed, the call ends with an error and no credential, and no session
\* changes: a session that was 'pending' with final_token null still is.
C23_PartialWorkRetained ==
    [][\A c \in Calls :
         (calls[c].kind = "stepUp" /\ calls[c].pc = "update") =>
           \A step \in {"sign", "update"} :
             StepUpUpdateFails(c, step) =>
               /\ \E v \in Accepted(validations', calls[c].login_id) :
                     v.validation_id = calls[c].validationId
               /\ validations \subseteq validations'
               /\ calls'[c].pc = "done" /\ calls'[c].error # ""
               /\ calls'[c].result = NullToken
               /\ sessions' = sessions
               /\ \A l \in DOMAIN sessions :
                     (Pending(l) /\ sessions[l].final_token = NullToken)
                     => /\ sessions'[l].status = "pending"
                        /\ sessions'[l].final_token = NullToken]_vars

\* a stepUp call whose session update failed: its validation record is
\* there and the only session is 'pending' with final_token null
C23_Witness ==
    \E c \in Calls :
        /\ calls[c].kind = "stepUp"
        /\ Failed(c, "Connection terminated unexpectedly", NoStatusCode)
        /\ DOMAIN sessions = {1}
        /\ Pending(1) /\ sessions[1].final_token = NullToken
        /\ \E v \in Accepted(validations, 1) : v.validation_id = CallUuid(c)

\* the step is a devStepUp call c for login_id l with a supplied score (or
\* none) and stroke_points, its BMFA request coming to the outcome
IsDevStepUpCallBMFA(c, l, score, points, outcome) ==
    /\ DevSessionCheck(getSessionByLoginId(l), now) = "ok"
    /\ DevStepUpCallBMFA(c, l, score, points, outcome)

\* C24: whatever the request to the BMFA service comes to, callBMFA resolves,
\* and a devStepUp call with stroke_points for a pending, unexpired session
\* in a development build ends in the threshold decision (accepted, or
\* rejected on the score); unless normalized points came back, the decision
\* is the one the original stroke_points give.
C24_BmfaFailureDegrades ==
    [][\A c \in Calls :
         (/\ Starts(c) /\ calls'[c].kind = "devStepUp"
          /\ NODE_ENV = "development") =>
           /\ \A outcome \in BmfaOutcomes :
                callBMFA(outcome).settled = "resolved"
           /\ Outcome(calls'[c]) \notin {"accept", "score too low"}
                => \A l \in DOMAIN sessions, score \in ScoreInputs \cup {NoScore},
                      points \in StrokeCounts \ {NoPoints},
                      outcome \in BmfaOutcomes :
                     ~IsDevStepUpCallBMFA(c, l, score, points, outcome)
           /\ \A score \in ScoreInputs \cup {NoScore},
                 points \in StrokeCounts \ {NoPoints} :
                Outcome(calls'[c])
                  # (IF DevScoreRejected(DevScore(score, points, BmfaNull))
                     THEN "score too low" ELSE "accept")
                => \A l \in DOMAIN sessions,
                      outcome \in BmfaOutcomes \ {"200 normalized"} :
                     ~IsDevStepUpCallBMFA(c, l, score, points, outcome)]_vars

\* of two devStepUp calls with 59 stroke_points and no score for the only
\* session, one was rejected on the score the 59 original points give (BMFA
\* gave nothing) and the other accepted on the 60 normalized points
C24_Witness ==
    \E c1, c2 \in Calls :
        /\ DOMAIN sessions = {1}
        /\ calls[c1].kind = "devStepUp"
        /\ Failed(c1, "Biometric verification failed (score below threshold)",
                  401)
        /\ calls[c2].kind = "devStepUp" /\ Returned(c2)
        /\ SimulatedScore(59) < Threshold
        /\ SimulatedScore(callBMFA("200 normalized").normalized) >= Threshold

\* C25: a stepUp call that waits for the key set does not wait for ever, and
\* when the wait ends without an answer the call ends with an error and no
\* credential, no session changes and no validation record is written.
C25_FetchTimeoutFailsClosed ==
    /\ \A c \in Calls : (calls[c].pc = "verify") ~> (calls[c].pc # "verify")
    /\ [][\A c \in Calls :
            FetchTimesOut(c) =>
              /\ FailedNext(c, "request timed out", NoStatusCode)
              /\ sessions' = sessions /\ validations' = validations]_vars

\* a stepUp call has ended on the timeout of the key-set request and the only
\* session is 'pending' as before
C25_Witness ==
    \E c \in Calls :
        /\ calls[c].kind = "stepUp"
        /\ Failed(c, "request timed out", NoStatusCode)
        /\ DOMAIN sessions = {1} /\ Pending(1)
        /\ sessions[1].final_token = NullToken
        /\ validations = {}

\* C26: a getSessionByLoginId call, whatever it follows, returns the row
\* stored under the login_id (or none) and leaves every session as it was.
C26_ReadsChangeNothing ==
    [][selected' # selected
         => /\ sessions' = sessions
            /\ \E l \in DOMAIN sessions \cup {UnknownLoginId} :
                  selected' = IF l \in DOMAIN sessions THEN sessions[l]
                              ELSE NoRow]_vars

\* two sessions side by side, the first completed and then read, the second
\* read after it and still pending
C26_Witness ==
    /\ DOMAIN sessions = {1, 2}
    /\ sessions[1].status = "completed"
    /\ sessions[2].status = "pending"
    /\ selected = sessions[2]

\* a stepUp with a valid assertion for the session would pass its checks
Completable(l) ==
    StepUpSessionCheck(sessions[l], sessions[l].nonce, now) = "ok"

\* the step is a step of a stepUp or devStepUp call for the session, or a
\* markSessionCompleted or expireSession call for it
OperationOn(l) ==
    \/ \E c \in Calls : /\ calls'[c] # calls[c]
                        /\ l \in {calls[c].login_id, calls'[c].login_id}
    \/ /\ calls' = calls
       /\ sessions' # sessions
       /\ \/ sessions' = expireSession(sessions, l)
          \/ \E final_token \in ModelTokens(l) :
                sessions' = markSessionCompleted(sessions, l, final_token, now)

\* C27: a step of a stepUp, devStepUp, markSessionCompleted or expireSession
\* call for one session leaves every field of every other session as it was,
\* and a session that could be completed before the step can be after it.
C27_SessionsIsolated ==
    [][\A A, B \in DOMAIN sessions :
          (/\ A # B
           /\ ~(/\ sessions'[B] = sessions[B]
                /\ (Completable(B) => Completable(B)')))
          => ~OperationOn(A)]_vars

\* session 1 completed by a stepUp call and session 2, of the same user,
\* completed by a devStepUp call after it
C27_Witness ==
    /\ DOMAIN sessions = {1, 2}
    /\ sessions[1].user_id = sessions[2].user_id
    /\ \E c1, c2 \in Calls :
          /\ c1 < c2
          /\ calls[c1].kind = "stepUp" /\ calls[c1].login_id = 1
          /\ Returned(c1) /\ sessions[1].final_token = calls[c1].result
          /\ calls[c2].kind = "devStepUp" /\ calls[c2].login_id = 2
          /\ Returned(c2) /\ sessions[2].final_token = calls[c2].result

\* C28: every step keeps every session there is, with its login_id, user_id,
\* nonce, temp_token, created_at and expires_at: only status, final_token and
\* completed_at change.
C28_IdentityImmutable ==
    [][sessions' # sessions
         => \A l \in DOMAIN sessions :
              /\ l \in DOMAIN sessions'
              /\ sessions'[l] = [sessions[l] EXCEPT
                     !.status = sessions'[l].status,
                     !.final_token = sessions'[l].final_token,
                     !.completed_at = sessions'[l].completed_at]]_vars

\* a session completed by a call, and one marked expired, with the user_id,
\* nonce and expires_at it was created with
C28_Witness ==
    \E l \in DOMAIN sessions :
        /\ sessions[l].status \in {"completed", "expired"}
        /\ sessions[l].login_id = l /\ sessions[l].nonce = l
        /\ sessions[l].user_id \in UserIds
        /\ sessions[l].expires_at = sessions[l].created_at + TempTokenTtlSeconds
        /\ now > sessions[l].created_at

\* the step in which call c, of the given kind, ends with the Error of the
\* threshold check
ThresholdRejection(c, kind, message) ==
    /\ calls[c].pc = "idle" /\ calls'[c].pc = "done"
    /\ calls'[c].kind = kind /\ calls'[c].error = message
    /\ calls'[c].statusCode = 401

\* C29: a stepUp call and a devStepUp call that end with the Error of the
\* threshold check follow one policy: neither writes a validation record (nor
\* changes a session).
C29_RejectionPolicyUniform ==
    [][\A c \in Calls :
          (\/ ThresholdRejection(c, "stepUp", "Biometric verification failed")
           \/ ThresholdRejection(c, "devStepUp",
                  "Biometric verification failed (score below threshold)"))
          => validations' = validations /\ sessions' = sessions]_vars

\* a stepUp call and a devStepUp call both rejected by the threshold check
\* for a session that is still pending, and no validation record
C29_Witness ==
    /\ \E c1, c2 \in Calls :
          /\ calls[c1].kind = "stepUp"
          /\ Failed(c1, "Biometric verification failed", 401)
          /\ calls[c2].kind = "devStepUp"
          /\ Failed(c2, "Biometric verification failed (score below threshold)",
                    401)
    /\ \E l \in DOMAIN sessions : sessions[l].status = "pending"
    /\ validations = {}

\* the bearer token of the header has a valid signature, the expected
\* algorithm and issuer, and has not expired
AcceptableBearer(authHeader) ==
    /\ authHeader.scheme = "Bearer"
    /\ authHeader.token.signature
    /\ authHeader.token.alg = "RS256"
    /\ authHeader.token.iss = "LocalAzure"
    /\ now < authHeader.token.exp

\* C30: a request through verifyJWT reaches next() with req.user set to the
\* claims of its token exactly when its Authorization header is 'Bearer '
\* with a token of valid signature, expected algorithm and issuer that has
\* not expired; any other request is answered 401 ('Token requerido', 'Token
\* expirado' or 'Token inválido'), with no next() and no req.user.
C30_OnlyVerifiedBearerPasses ==
    [][\A authHeader \in AuthorizationHeaders :
          (res' # res /\ VerifyJWT(authHeader))
          => IF AcceptableBearer(authHeader)
             THEN /\ res'.next /\ res'.status = 0
                  /\ res'.user = authHeader.token.payload
             ELSE /\ ~res'.next /\ res'.status = 401
                  /\ res'.user = NullToken
                  /\ res'.error \in {"Token requerido", "Token expirado",
                                     "Token inválido"}]_vars

\* the temp token of a session presented once its exp has been reached:
\* answered 401 'Token expirado'
C30_Witness ==
    /\ res.middleware = "verifyJWT"
    /\ res.status = 401 /\ res.error = "Token expirado" /\ ~res.next
    /\ \E l \in DOMAIN sessions : now >= sessions[l].expires_at

\* C31: a stepUp call with a verified assertion for a pending session that is
\* past its expires_at, carrying a nonce other than the session's, fails with
\* 'Login session expired' (400): the expiry check comes before the nonce
\* check.
C31_ExpiredBeforeNonce ==
    [][\A c \in Calls : Starts(c) =>
         \A l \in DOMAIN sessions : (Pending(l) /\ Expired(l)) =>
           \A nonce \in NonceInputs :
             (nonce # sessions[l].nonce /\ IsStepUp(c, l, nonce))
             => FailedNext(c, "Login session expired", 400)]_vars

\* the step ends call c as unauthorized (401) and changes no session
UnauthorizedNext(c) ==
    /\ calls'[c].pc = "done" /\ calls'[c].statusCode = 401
    /\ calls'[c].result = NullToken /\ sessions' = sessions

\* C32: on a pending, unexpired session, a stepUp call with a verified
\* assertion whose score is not a number, and a devStepUp call in a
\* development build with a supplied score that does not parse to a number,
\* both end as unauthorized (401) and leave the session pending.
C32_NonNumberScoreRejected ==
    [][\A c \in Calls : Starts(c) =>
         \A l \in DOMAIN sessions : (Pending(l) /\ ~Expired(l)) =>
           /\ \A sub \in UserIds :
                 StepUp(c, "ok", l, sub, NotANumber, sessions[l].nonce)
                 => UnauthorizedNext(c)
           /\ \A i \in DevStepUpInputs :
                 (/\ NODE_ENV = "development"
                  /\ i.score = NotANumber
                  /\ DevStepUp(c, i.http, l, i.score, i.points, i.bmfa))
                 => UnauthorizedNext(c)]_vars

\* C33: a request to the endpoint in a development build with stroke_points
\* and no score, for a pending and unexpired session, is decided on the score
\* its stroke_points give (the normalized ones when the BMFA service
\* returned some).
C33_EndpointPassesStrokePoints ==
    [][\A c \in Calls : (Starts(c) /\ NODE_ENV = "development") =>
         \A l \in DOMAIN sessions : (Pending(l) /\ ~Expired(l)) =>
           \A pts \in (StrokeCounts \cup {60}) \ {NoPoints},
              outcome \in BmfaOutcomes :
             PostDevStepUp(c, [login_id |-> l, score |-> NoScore,
                               stroke_points |-> pts], outcome)
             => Outcome(calls'[c])
                  = (IF DevScoreRejected(DevScore(NoScore, pts,
                                            callBMFA(outcome).normalized))
                     THEN "score too low" ELSE "accept")]_vars

\* C34: the final credential a stepUp call returned carries as sub the
\* user_id of the session of the call, and the validation record the call
\* wrote carries that user_id.
C34_SubjectIsSessionOwner ==
    \A c \in Calls :
        (calls[c].kind = "stepUp" /\ Returned(c))
        => /\ calls[c].result.sub = sessions[calls[c].login_id].user_id
           /\ \A v \in validations :
                 v.validation_id = calls[c].validationId
                 => v.user_id = sessions[calls[c].login_id].user_id

\* C35: for every arc claim of a token (missing and unparsable ones
\* included) and every resource, requireArc with the required level of the
\* resource calls next() exactly when evaluateAccess, its policy query
\* answered, returns allowed = true.
C35_MiddlewareAgreesWithEvaluation ==
    \A arc \in ArcInputs, resourceName \in ResourceNames :
        LET level == getRequiredArcForResource(resourceName, "rows")
        IN  requireArc(level, [NullToken EXCEPT !.arc = arc]).next
              = evaluateAccess(arc, resourceName, "rows").allowed

\* C36: when the policy lookup fails, getRequiredArcForResource returns '0.5'
\* (as it does for a resource without a policy) instead of throwing, whatever
\* policy the resource has, and evaluateAccess allows exactly the arcs whose
\* value is >= 0.5, the arc of a temp credential among them.
C36_LookupFailureDefaultsToHalf ==
    [][\A userArc \in ArcInputs, resourceName \in ResourceNames :
          EvaluateAccess(userArc, resourceName, "error")
          => /\ evaluation'.requiredArc = "0.5"
             /\ evaluation'.requiredArc
                  = getRequiredArcForResource("a resource without policy",
                                              "rows")
             /\ evaluation'.allowed <=> userArc \in {"0.5", "1.0", "2"}
             /\ userArc = "0.5" => evaluation'.allowed]_vars

\* with active policies requiring level 2 on every resource and a session
\* whose temp credential has arc 0.5, an evaluation came out allowed against
\* the level 0.5
C36_Witness ==
    /\ \A name \in ResourceNames :
          /\ name \in DOMAIN policies
          /\ policies[name].is_active /\ policies[name].acr_required = "2"
    /\ \E l \in DOMAIN sessions : sessions[l].temp_token.arc = "0.5"
    /\ evaluation.allowed /\ evaluation.requiredArc = "0.5"

\* C37: a login call that returns a temp credential has inserted the pending
\* session with the login_id and nonce of that credential; a login call in
\* which password validation, the signing of the temp token or the INSERT
\* fails ends with an Error and no token, and creates no session.
C37_TokenOnlyWithSession ==
    [][loginResult' # loginResult =>
         /\ loginResult'.token # NullToken
              => LET l == loginResult'.token.login_id
                 IN  /\ l \in DOMAIN sessions' /\ l \notin DOMAIN sessions
                     /\ sessions'[l].status = "pending"
                     /\ sessions'[l].nonce = loginResult'.token.nonce
                     /\ sessions'[l].temp_token = loginResult'.token
         /\ \A user \in UserIds, step \in {"password", "sign", "insert"} :
              LoginFails(user, step)
              => /\ loginResult'.token = NullToken
                 /\ loginResult'.error # ""
                 /\ step = "password" => loginResult'.statusCode = 401
                 /\ sessions' = sessions]_vars

\* the last login failed on its INSERT and there is no session
C37_Witness ==
    /\ loginResult.token = NullToken
    /\ loginResult.error = "Connection terminated unexpectedly"
    /\ DOMAIN sessions = {}

\* the number of points a devStepUp call counts: those the BMFA service
\* returned, else those given, else 0
CountedPoints(points, bmfa) ==
    IF points = NoPoints THEN 0 ELSE IF bmfa # BmfaNull THEN bmfa ELSE points

\* C38: a devStepUp call without a score, in a development build and for a
\* pending, unexpired session, decides on min(0.95, 0.70 + (n / 100) * 0.25)
\* for the number n of (normalized) stroke points: it is accepted exactly
\* when n >= 60, and rejected when there are no stroke points.
C38_SimulatedScoreThreshold ==
    [][\A c \in Calls : (Starts(c) /\ calls'[c].kind = "devStepUp") =>
         \A l \in DOMAIN sessions : (Pending(l) /\ ~Expired(l)) =>
           \A points \in PointCounts \cup {NoPoints},
              bmfa \in PointCounts \cup {BmfaNull} :
             DevStepUp(c, FALSE, l, NoScore, points, bmfa)
             => LET n == CountedPoints(points, bmfa)
                IN  /\ DevScore(NoScore, points, bmfa)
                         = (IF 7000 + 25 * n > 9500 THEN 9500
                            ELSE 7000 + 25 * n)
                    /\ Outcome(calls'[c])
                         = (IF n >= 60 THEN "accept" ELSE "score too low")
                    /\ points = NoPoints
                         => Outcome(calls'[c]) = "score too low"]_vars

\* of two devStepUp calls without a score for the only session, one was
\* rejected on the score and the other returned a credential
C38_Witness ==
    \E c1, c2 \in Calls :
        /\ DOMAIN sessions = {1}
        /\ calls[c1].kind = "devStepUp"
        /\ Failed(c1, "Biometric verification failed (score below threshold)",
                  401)
        /\ calls[c2].kind = "devStepUp" /\ Returned(c2)
        /\ SimulatedScore(59) = 8475 /\ SimulatedScore(60) = Threshold

\* C39: when the validation write of a stepUp or devStepUp call is rejected,
\* the call ends with an Error and no credential before any token is signed,
\* no record is written and no session changes: the session of the call, if
\* it was 'pending' with final_token null, still is, and a step-up for it
\* that would have passed the session checks still does.
C39_FailedWriteLeavesPending ==
    [][\A c \in Calls :
         (calls[c].pc = "register"
          /\ (StepUpRegisterFails(c) \/ DevRegisterFails(c)))
         => /\ FailedNext(c, "Connection terminated unexpectedly",
                          NoStatusCode)
            /\ validations' = validations
            /\ sessions' = sessions
            /\ \A l \in DOMAIN sessions : l = calls[c].login_id =>
                  /\ (Pending(l) /\ sessions[l].final_token = NullToken)
                       => /\ sessions'[l].status = "pending"
                          /\ sessions'[l].final_token = NullToken
                  /\ Completable(l) => Completable(l)']_vars

\* a stepUp call failed on its validation write, and a later call for the
\* same session returned a credential
C39_Witness ==
    \E c1, c2 \in Calls :
        /\ c1 < c2
        /\ calls[c1].kind = "stepUp"
        /\ Failed(c1, "Connection terminated unexpectedly", NoStatusCode)
        /\ Returned(c2) /\ calls[c2].login_id = 1
        /\ sessions[1].final_token = calls[c2].result
        /\ \A v \in validations : v.validation_id # CallUuid(c1)

====
